---- MODULE Spec2Model ----
(***************************************************************************)
(* Retrieval-and-ranking pipeline of rag-builder: performHybridSearch      *)
(* (search.js, listed in README.md), rerankResults and the relevance       *)
(* filter (advancedSearch.js, webServer.js).                               *)
(*                                                                         *)
(* Strings are sequences of one-character strings, so that toLowerCase,    *)
(* split, includes, substring and the \b...\b regular expression are       *)
(* computed character by character.  Scores are integers in thousandths    *)
(* (0.5 is 500, 0.05 is 50).                                               *)
(***************************************************************************)
EXTENDS Integers, Sequences, FiniteSets, TLC

\* ------------------------------------------------------------------ bounds
MaxK == 2            \* largest k a search is started with
MaxResults == 2      \* longest candidate list handed to rerankResults
MaxQueryWords == 3   \* most words of a query handed to expandQuery
MaxDocSteps == 10    \* longest document split, in steps of the splitter's overlap
MaxHandles == 3      \* most Chroma handles the server makes
MaxQuestions == 2    \* most questions put to the CLI

\* ------------------------------------------------------- program constants
ScanLimit == 1000        \* similaritySearch("", 1000)
KeyPrefixLen == 100      \* pageContent.substring(0, 100)
MinKeywordLen == 2       \* word.length > 2
FallbackScore == 500     \* score: 0.5
HighBand == 700          \* score > 0.7
MediumBand == 500        \* score > 0.5
ExactBoost == 200        \* rerankScore += 0.2
FileNameBoost == 150     \* rerankScore += 0.15
DirectoryBoost == 100    \* rerankScore += 0.1
FrequencyUnit == 50      \* wordFrequency * 0.05
FrequencyCap == 300      \* Math.min(..., 0.3)
RecencyBoost == 100      \* rerankScore += 0.1
RecencyDays == 30        \* daysSinceModified < 30
WebThreshold == 250      \* (result.rerankScore || result.score) > 0.25
CliThreshold == 300      \* filterResultsByRelevance(searchResults, 0.3)
DefaultRelevanceThreshold == 250   \* parseFloat(RELEVANCE_THRESHOLD) || 0.25
DefaultResultsCount == 8           \* parseInt(SEARCH_RESULTS_COUNT) || 8
DefaultChunkSize == 1200           \* parseInt(CHUNK_SIZE) || 1200
DefaultChunkOverlap == 300         \* parseInt(CHUNK_OVERLAP) || 300
SplitterChunkSize == 1200          \* chunkSize: 1200
SplitterChunkOverlap == 300        \* chunkOverlap: 300
BatchSize == 5000                  \* const batchSize = 5000
WebK == 8                          \* performAdvancedSearch(this.vectorStore, query, 8)
DebugK == 3             \* performHybridSearch(this.vectorStore, query, 3)

\* ----------------------------------------------------------------- strings
Rep(c, n) == [i \in 1..n |-> c]

Min(a, b) == IF a < b THEN a ELSE b

UpperCase == <<"A","B","C","D","E","F","G","H","I","J","K","L","M",
               "N","O","P","Q","R","S","T","U","V","W","X","Y","Z">>

LowerCase == <<"a","b","c","d","e","f","g","h","i","j","k","l","m",
               "n","o","p","q","r","s","t","u","v","w","x","y","z">>

\* String.prototype.toLowerCase, on ASCII.
LowerChar(c) ==
  IF \E i \in 1..Len(UpperCase) : UpperCase[i] = c
  THEN LowerCase[CHOOSE i \in 1..Len(UpperCase) : UpperCase[i] = c]
  ELSE c

ToLower(s) == [i \in 1..Len(s) |-> LowerChar(s[i])]

\* \s of a JavaScript regular expression, on the model's alphabet.
IsSpace(c) == c \in {" ", "\t"}

\* \w of a JavaScript regular expression: [A-Za-z0-9_].
IsWordChar(c) ==
  \/ \E i \in 1..Len(UpperCase) : c = UpperCase[i] \/ c = LowerCase[i]
  \/ c \in {"0","1","2","3","4","5","6","7","8","9","_"}

\* String.prototype.includes: "" is included in every string.
Includes(s, sub) ==
  \E i \in 0..(Len(s) - Len(sub)) : SubSeq(s, i + 1, i + Len(sub)) = sub

\* String.prototype.substring(0, n)
Prefix(s, n) == SubSeq(s, 1, Min(n, Len(s)))

\* Index of the first character of s at or after position i that satisfies
\* (wantSpace = IsSpace), or Len(s) + 1.
RECURSIVE FirstAt(_, _, _)
FirstAt(s, i, wantSpace) ==
  IF i > Len(s) THEN Len(s) + 1
  ELSE IF IsSpace(s[i]) = wantSpace THEN i
  ELSE FirstAt(s, i + 1, wantSpace)

\* String.prototype.split(/\s+/): a leading or trailing run of whitespace
\* yields an empty first or last piece; "" splits to [""].
RECURSIVE SplitWs(_)
SplitWs(s) ==
  LET i == FirstAt(s, 1, TRUE)
  IN IF i > Len(s) THEN <<s>>
     ELSE LET j == FirstAt(s, i, FALSE)
          IN <<SubSeq(s, 1, i - 1)>> \o SplitWs(SubSeq(s, j, Len(s)))

\* Index of the first " " of s at or after position i, or Len(s) + 1.
RECURSIVE FirstBlank(_, _)
FirstBlank(s, i) ==
  IF i > Len(s) THEN Len(s) + 1
  ELSE IF s[i] = " " THEN i
  ELSE FirstBlank(s, i + 1)

\* String.prototype.split(' '): every single blank separates, so two blanks
\* in a row yield an empty piece.
RECURSIVE SplitBlank(_)
SplitBlank(s) ==
  LET i == FirstBlank(s, 1)
  IN IF i > Len(s) THEN <<s>>
     ELSE <<SubSeq(s, 1, i - 1)>> \o SplitBlank(SubSeq(s, i + 1, Len(s)))

\* words.filter(word => word.length > 2)
RECURSIVE LongWords(_)
LongWords(ws) ==
  IF ws = <<>> THEN <<>>
  ELSE (IF Len(Head(ws)) > MinKeywordLen THEN <<Head(ws)>> ELSE <<>>)
       \o LongWords(Tail(ws))

\* The injective sequences of length n over the set S.
InjSeqs(S, n) ==
  {s \in [1..n -> S] : \A i, j \in 1..n : i # j => s[i] # s[j]}

\* ------------------------------------------------------------------ chunks
\* The chunks a collection may hold.  metadata.source, fileName,
\* relativePath, directory and lastModified are optional (the code reads
\* them with ?. and ||): <<>> is an absent field.  lastModified is given as
\* the age in days at the time of the query, (Date.now() - lastModified) in
\* days.
ChunkIds == 1..4

Doc(i) ==
  CASE i = 1 -> [pageContent |-> <<"w","o","r","k"," ","j","o","b">>,
                 source |-> <<"p">>, fileName |-> <<"n">>, relativePath |-> <<"n">>,
                 directory |-> <<>>, lastModified |-> <<>>]
    [] i = 2 -> [pageContent |-> <<"j","o","b">>,
                 source |-> <<"p">>, fileName |-> <<"n">>, relativePath |-> <<"n">>,
                 directory |-> <<>>, lastModified |-> <<>>]
    [] i = 3 -> [pageContent |-> Rep("a", KeyPrefixLen) \o <<"b">>,
                 source |-> <<>>, fileName |-> <<"W","O","R","K">>, relativePath |-> <<>>,
                 directory |-> <<>>, lastModified |-> <<>>]
    [] i = 4 -> [pageContent |-> <<"d"," ","j","o","b">>,
                 source |-> <<>>, fileName |-> <<>>, relativePath |-> <<"d","/","j","o","b">>,
                 directory |-> <<>>, lastModified |-> <<>>]
    [] i = 5 -> [pageContent |-> <<"j","o","b"," ","j","o","b"," ","j","o","b">>,
                 source |-> <<"q">>, fileName |-> <<"j","o","b"," ","j","o","b">>, relativePath |-> <<"j","o","b","/","j","o","b"," ","j","o","b">>,
                 directory |-> <<"j","o","b">>, lastModified |-> <<3>>]
    [] i = 6 -> [pageContent |-> <<"d">>,
                 source |-> <<"r">>, fileName |-> <<"n">>, relativePath |-> <<"j","o","b","s","/","n">>,
                 directory |-> <<"J","o","b","s">>, lastModified |-> <<RecencyDays>>]

\* Queries a search is started with: the empty query, no token longer than
\* two characters, one token, two tokens with upper case, a token that
\* occurs nowhere after two blanks, a token inside the long text.
Queries ==
  { <<>>,
    <<"a","b">>,
    <<"w","o","r","k">>,
    <<"W","O","R","K"," ","j","o","b">>,
    <<"j","o","b"," "," ","d","d","d">>,
    <<"a","a","a">> }

\* Similarity scores the vector index may report.
SimScores == {500, 900}

\* The vector index: the chunks of the collection that the model follows,
\* and the number of further chunks it holds.
VARIABLES corpus, extra

\* One call of performHybridSearch: its arguments, its position, its locals
\* (results, allDocs, uniqueResults, fallbackResults), which call of the
\* vector index rejected, and what it returned.
VARIABLES query, k, pc, results, allDocs, unique, fallbackResults, failed, ret

\* One call of performAdvancedSearch: its arguments, its position, its locals
\* (allResults, expandedQueries.slice(1, 4), the loop index, uniqueResults),
\* the calls of performHybridSearch it has made, the expansions whose call
\* rejected, and what it returned.
VARIABLES aquery, ak, apc, allResults, expandedQueries, expIdx, calls, skipped,
          aunique, aret

\* One call of rerankResults and the relevance filter after it (POST
\* /api/query), or one call of filterResultsByRelevance (CLI): the query, the
\* candidates handed in, the position, the reranked list, the threshold
\* used and the filtered list.
VARIABLES rquery, rinput, rpc, reranked, threshold, relevant

\* The rest of the request: config.relevanceThreshold as loadConfig set it,
\* the outcome the caller is given, and the blocks of the context string.
VARIABLES relevanceThreshold, outcome, context

\* One call of expandQuery: the query, the position, the returned list.
VARIABLES equery, epc, expanded

indexVars == <<corpus, extra>>

expandVars == <<equery, epc, expanded>>

rerankVars ==
  <<rquery, rinput, rpc, reranked, threshold, relevant, relevanceThreshold, outcome,
    context>>

advVars == <<aquery, ak, apc, allResults, expandedQueries, expIdx, calls, skipped,
             aunique, aret>>

hybridVars == <<query, k, pc, results, allDocs, unique, fallbackResults, failed, ret>>

\* The process environment and the files: process.env as loadConfig reads
\* it, and the .env file (<<>>: there is none).
VARIABLES processEnv, envFile

\* The web server: this.config (<<>>: null), this.vectorStore (0: null,
\* otherwise the number of the Chroma handle), the number of handles made so
\* far, and the collection "obsidian_notes" of the Chroma server.
VARIABLES config, vectorStore, handles, collection

\* The requests in flight, each with its position and its locals: the POST
\* /api/init requests, POST /api/refresh, POST /api/query, POST
\* /api/settings/vault-path.
VARIABLES initReq, refreshReq, queryReq, vaultReq

\* The CLI loop, and one call of splitDocumentsIntoChunks.
VARIABLES cli, splitCall

serverVars ==
  <<processEnv, envFile, config, vectorStore, handles, collection, initReq, refreshReq,
    queryReq, vaultReq, cli, splitCall>>

vars == <<indexVars, hybridVars, advVars, rerankVars, expandVars, serverVars>>

\* The subsequence of the ids in S, in ascending order.
RECURSIVE Ascending(_)
Ascending(S) ==
  IF S = {} THEN <<>>
  ELSE LET m == CHOOSE x \in S : \A y \in S : x <= y
       IN <<m>> \o Ascending(S \ {m})

\* ------------------------------------------------------------ vector index
\* The collection holds the chunks of corpus and `extra` further chunks in
\* which no query token occurs.  An answer lists chunks in the index's own
\* order, here ascending id; any chunk may carry any score.

\* similaritySearchWithScore(query, n): at most n [doc, score] pairs.
SemanticResponses(c, n) ==
  UNION { { [i \in 1..Len(Ascending(S)) |->
               [doc |-> Ascending(S)[i], score |-> f[Ascending(S)[i]]]]
            : f \in [S -> SimScores] }
          : S \in {T \in SUBSET c : Cardinality(T) <= n} }

\* similaritySearch("", ScanLimit): the first ScanLimit chunks of the
\* collection.  Of a collection larger than ScanLimit, any chunk may be
\* among those left out.
ScanResponses(c, x) ==
  LET total == Cardinality(c) + x
      returned == Min(total, ScanLimit)
  IN { Ascending(S) : S \in {T \in SUBSET c :
                               /\ Cardinality(T) <= returned
                               /\ Cardinality(T) >= returned - x} }

\* similaritySearch(query, n): at most n chunks, in the index's order for
\* that query (any order).
FallbackResponses(c, n) ==
  UNION { InjSeqs(c, m) : m \in 0..Min(n, Cardinality(c)) }

\* ------------------------------------------------------ performHybridSearch
\* relevance: score > 0.7 ? 'high' : score > 0.5 ? 'medium' : 'low'
Band(score) ==
  IF score > HighBand THEN "high"
  ELSE IF score > MediumBand THEN "medium"
  ELSE "low"

\* semanticResults.forEach(([doc, score]) => results.push({...}))
SemanticCandidates(resp) ==
  [i \in 1..Len(resp) |->
     [doc |-> resp[i].doc, score |-> resp[i].score, type |-> "semantic",
      relevance |-> Band(resp[i].score)]]

\* query.toLowerCase().split(/\s+/).filter(word => word.length > 2)
Keywords(q) == LongWords(SplitWs(ToLower(q)))

\* keywordMatches of one document: the number of keywords (counted with
\* repetition) that occur in its content, file name or relative path.
KeywordMatches(d, kws) ==
  Cardinality({ i \in 1..Len(kws) :
                  \/ Includes(ToLower(Doc(d).pageContent), kws[i])
                  \/ Includes(ToLower(Doc(d).fileName), kws[i])
                  \/ Includes(ToLower(Doc(d).relativePath), kws[i]) })

\* keywordMatches / keywords.length, in thousandths (exact for 1, 2 and 4
\* keywords, the token counts of Queries).
KeywordScore(m, n) == (m * 1000) \div n

\* for (const doc of allDocs) { ... if (keywordMatches > 0) results.push }
RECURSIVE KeywordCandidates(_, _)
KeywordCandidates(docs, kws) ==
  IF docs = <<>> THEN <<>>
  ELSE LET m == KeywordMatches(Head(docs), kws)
       IN (IF m > 0
           THEN << [doc |-> Head(docs), score |-> KeywordScore(m, Len(kws)),
                    type |-> "keyword",
                    relevance |-> Band(KeywordScore(m, Len(kws))),
                    keywordMatches |-> m] >>
           ELSE <<>>)
          \o KeywordCandidates(Tail(docs), kws)

\* metadata?.source || pageContent.substring(0, 100)
IdentityKey(r) ==
  IF Doc(r.doc).source # <<>> THEN Doc(r.doc).source
  ELSE Prefix(Doc(r.doc).pageContent, KeyPrefixLen)

\* if (!uniqueResults.has(key) || result.score > uniqueResults.get(key).score)
\*   uniqueResults.set(key, result)
\* A Map keeps its keys in insertion order; set() of a present key keeps
\* the key's place.
KeepFirstInto(acc, r) ==
  IF \E i \in 1..Len(acc) : IdentityKey(acc[i]) = IdentityKey(r)
  THEN acc
  ELSE Append(acc, r)

SetInto(acc, r) ==
  IF \E i \in 1..Len(acc) : IdentityKey(acc[i]) = IdentityKey(r)
  THEN LET i == CHOOSE j \in 1..Len(acc) : IdentityKey(acc[j]) = IdentityKey(r)
       IN IF r.score > acc[i].score THEN [acc EXCEPT ![i] = r] ELSE acc
  ELSE Append(acc, r)

RECURSIVE MergeFrom(_, _)
MergeFrom(acc, rs) ==
  IF rs = <<>> THEN acc ELSE MergeFrom(SetInto(acc, Head(rs)), Tail(rs))

\* Array.from(uniqueResults.values())
Deduplicate(rs) == MergeFrom(<<>>, rs)

\* Array.prototype.sort((a, b) => b.score - a.score): stable, descending.
RECURSIVE InsertByScore(_, _)
InsertByScore(sorted, r) ==
  IF sorted = <<>> THEN <<r>>
  ELSE IF Head(sorted).score >= r.score
       THEN <<Head(sorted)>> \o InsertByScore(Tail(sorted), r)
       ELSE <<r>> \o sorted

RECURSIVE SortFrom(_, _)
SortFrom(acc, rs) ==
  IF rs = <<>> THEN acc ELSE SortFrom(InsertByScore(acc, Head(rs)), Tail(rs))

SortByScore(rs) == SortFrom(<<>>, rs)

SliceNothing(rs, n) == rs

\* Array.prototype.slice(0, n), n >= 0
Slice(rs, n) == SubSeq(rs, 1, Min(n, Len(rs)))

FallbackUnscored(docs) ==
  [i \in 1..Len(docs) |->
     [doc |-> docs[i], score |-> 0, type |-> "fallback", relevance |-> "medium"]]

\* fallbackResults.map(doc => ({document: doc, score: 0.5, type: 'fallback',
\*                              relevance: 'medium'}))
FallbackCandidates(docs) ==
  [i \in 1..Len(docs) |->
     [doc |-> docs[i], score |-> FallbackScore, type |-> "fallback",
      relevance |-> "medium"]]

\* ------------------------------------------------------------- expandQuery
\* synonymMap[word] for the own keys of the table; <<>> where the table has
\* no such key.
SynonymMap(word) ==
  CASE word = <<"l","e","a","r","n">> ->
         << <<"s","t","u","d","y">>,
            <<"u","n","d","e","r","s","t","a","n","d">>,
            <<"g","r","a","s","p">>,
            <<"m","a","s","t","e","r">>,
            <<"a","c","q","u","i","r","e">> >>
    [] word = <<"w","o","r","k">> ->
         << <<"j","o","b">>,
            <<"c","a","r","e","e","r">>,
            <<"e","m","p","l","o","y","m","e","n","t">>,
            <<"p","r","o","f","e","s","s","i","o","n">> >>
    [] word = <<"p","r","o","j","e","c","t">> ->
         << <<"t","a","s","k">>,
            <<"a","s","s","i","g","n","m","e","n","t">>,
            <<"i","n","i","t","i","a","t","i","v","e">>,
            <<"e","n","d","e","a","v","o","r">> >>
    [] word = <<"m","e","e","t","i","n","g">> ->
         << <<"c","o","n","f","e","r","e","n","c","e">>,
            <<"d","i","s","c","u","s","s","i","o","n">>,
            <<"s","e","s","s","i","o","n">>,
            <<"g","a","t","h","e","r","i","n","g">> >>
    [] word = <<"i","d","e","a">> ->
         << <<"c","o","n","c","e","p","t">>,
            <<"t","h","o","u","g","h","t">>,
            <<"n","o","t","i","o","n">>,
            <<"p","r","o","p","o","s","a","l">> >>
    [] word = <<"p","r","o","b","l","e","m">> ->
         << <<"i","s","s","u","e">>,
            <<"c","h","a","l","l","e","n","g","e">>,
            <<"d","i","f","f","i","c","u","l","t","y">>,
            <<"o","b","s","t","a","c","l","e">> >>
    [] word = <<"s","o","l","u","t","i","o","n">> ->
         << <<"a","n","s","w","e","r">>,
            <<"f","i","x">>,
            <<"r","e","s","o","l","u","t","i","o","n">>,
            <<"r","e","m","e","d","y">> >>
    [] word = <<"g","o","a","l">> ->
         << <<"o","b","j","e","c","t","i","v","e">>,
            <<"t","a","r","g","e","t">>,
            <<"a","i","m">>,
            <<"p","u","r","p","o","s","e">> >>
    [] word = <<"p","l","a","n">> ->
         << <<"s","t","r","a","t","e","g","y">>,
            <<"a","p","p","r","o","a","c","h">>,
            <<"m","e","t","h","o","d">>,
            <<"s","c","h","e","m","e">> >>
    [] word = <<"r","e","s","u","l","t">> ->
         << <<"o","u","t","c","o","m","e">>,
            <<"c","o","n","s","e","q","u","e","n","c","e">>,
            <<"e","f","f","e","c","t">>,
            <<"c","o","n","c","l","u","s","i","o","n">> >>
    [] word = <<"b","h","a","i","y","a">> ->
         << <<"b","r","o","t","h","e","r">>,
            <<"a","n","s","h","u","l">>,
            <<"a","n","s","h","u","l"," ","b","h","a","i","y","a">> >>
    [] OTHER -> <<>>

\* synonymMap is an object literal: for these words synonymMap[word] is a
\* truthy value inherited from Object.prototype that has no forEach, so
\* synonymMap[word].forEach(...) throws a TypeError.
InheritedKeys == { <<"c","o","n","s","t","r","u","c","t","o","r">>,
                   <<"_","_","p","r","o","t","o","_","_">> }

\* String.prototype.replace(word, synonym) with a string pattern: the first
\* occurrence of word as a substring is replaced.
ReplaceFirst(s, word, synonym) ==
  IF ~Includes(s, word) THEN s
  ELSE LET i == CHOOSE j \in 0..(Len(s) - Len(word)) :
                   /\ SubSeq(s, j + 1, j + Len(word)) = word
                   /\ \A h \in 0..(j - 1) : SubSeq(s, h + 1, h + Len(word)) # word
       IN SubSeq(s, 1, i) \o synonym \o SubSeq(s, i + Len(word) + 1, Len(s))

SeqIncludes(seq, x) == \E i \in 1..Len(seq) : seq[i] = x

\* synonymMap[word].forEach(synonym => { ... })
RECURSIVE AddSynonyms(_, _, _, _)
AddSynonyms(expansions, q, word, synonyms) ==
  IF synonyms = <<>> THEN expansions
  ELSE LET expandedQuery == ReplaceFirst(ToLower(q), word, Head(synonyms))
       IN AddSynonyms(IF SeqIncludes(expansions, expandedQuery)
                      THEN expansions
                      ELSE Append(expansions, expandedQuery),
                      q, word, Tail(synonyms))

\* words.forEach(word => { if (synonymMap[word]) ... })
RECURSIVE ExpandWords(_, _, _)
ExpandWords(expansions, q, words) ==
  IF words = <<>> THEN expansions
  ELSE ExpandWords(AddSynonyms(expansions, q, Head(words), SynonymMap(Head(words))),
                   q, Tail(words))

\* expandQuery throws on a word that names an inherited property.
ExpandQueryThrows(q) ==
  \E i \in 1..Len(SplitWs(ToLower(q))) : SplitWs(ToLower(q))[i] \in InheritedKeys

\* expandQuery(query), when it returns.
ExpandQuery(q) == ExpandWords(<<q>>, q, SplitWs(ToLower(q)))

\* --------------------------------------------------- performAdvancedSearch
\* What one call performHybridSearch(vectorStore, q, n) may return, over
\* every answer of the vector index: the normal path and the fallback path.
HybridReturns(c, x, q, n) ==
  { Slice(SortByScore(Deduplicate(SemanticCandidates(resp)
                                  \o KeywordCandidates(docs, Keywords(q)))), n)
      : resp \in SemanticResponses(c, 2 * n), docs \in ScanResponses(c, x) }
  \cup { FallbackCandidates(docs) : docs \in FallbackResponses(c, n) }

\* Math.ceil(k / 2)
HalfCeil(n) == (n + 1) \div 2

SliceAll(seq) == seq

\* expandedQueries.slice(1, 4)
Slice14(seq) == SubSeq(seq, 2, Min(4, Len(seq)))

\* result.type = 'expanded'; result.expandedQuery = expandedQuery
MarkExpanded(rs, expandedQuery) ==
  [i \in 1..Len(rs) |->
     [type |-> "expanded", expandedQuery |-> expandedQuery] @@ rs[i]]

InitIndex ==
  /\ corpus \in SUBSET ChunkIds
  /\ extra \in {0, ScanLimit}

InitHybrid ==
  /\ query = <<>>
  /\ k = 0
  /\ pc = "idle"
  /\ results = <<>>
  /\ allDocs = <<>>
  /\ unique = <<>>
  /\ fallbackResults = <<>>
  /\ failed = "none"
  /\ ret = <<>>

InitAdvanced ==
  /\ aquery = <<>>
  /\ ak = 0
  /\ apc = "idle"
  /\ allResults = <<>>
  /\ expandedQueries = <<>>
  /\ expIdx = 0
  /\ calls = <<>>
  /\ skipped = <<>>
  /\ aunique = <<>>
  /\ aret = <<>>

InitRerank ==
  /\ rquery = <<>>
  /\ rinput = <<>>
  /\ rpc = "idle"
  /\ reranked = <<>>
  /\ threshold = 0
  /\ relevant = <<>>
  /\ relevanceThreshold = DefaultRelevanceThreshold
  /\ outcome = "none"
  /\ context = <<>>

InitExpand ==
  /\ equery = <<>>
  /\ epc = "idle"
  /\ expanded = <<>>

\* ------------------------------------------------- environment and server
\* process.env with nothing set but the vault path "/old": a value is <<>>
\* (unset) or <<x>>.
DefaultEnv ==
  [OBSIDIAN_VAULT_PATH |-> <<"/old">>,
   SEARCH_RESULTS_COUNT |-> <<>>,
   ENABLE_QUERY_EXPANSION |-> <<>>,
   ENABLE_RERANKING |-> <<>>,
   CHUNK_SIZE |-> <<>>,
   CHUNK_OVERLAP |-> <<>>]

\* The collection does not exist.
NoCollection == [exists |-> FALSE, batches |-> <<>>]

\* A request that is not in flight.
NoRequest == [pc |-> "idle"]

\* The CLI has not been started.
NoCli == [pc |-> "stopped", asked |-> 0, prompts |-> 0]

InitRequests == {1, 2}

NoEnvFile == [exists |-> FALSE, lines |-> <<>>]

\* No request is in flight, the CLI is not started, .env is absent.
NoRequests ==
  /\ envFile = NoEnvFile
  /\ initReq = [i \in InitRequests |-> NoRequest]
  /\ refreshReq = NoRequest
  /\ queryReq = NoRequest
  /\ vaultReq = NoRequest
  /\ cli = NoCli
  /\ splitCall = NoRequest

\* new WebServer(): this.vectorStore = null, this.config = null.
NewServer ==
  /\ config = <<>>
  /\ vectorStore = 0
  /\ handles = 0
  /\ collection = NoCollection

InitServer ==
  /\ processEnv = DefaultEnv
  /\ NewServer
  /\ NoRequests

Init ==
  InitIndex /\ InitHybrid /\ InitAdvanced /\ InitRerank /\ InitExpand /\ InitServer

\* performHybridSearch(vectorStore, query, k) is called.
StartSearch ==
  /\ pc = "idle"
  /\ \E q \in Queries, n \in 0..MaxK :
       /\ query' = q
       /\ k' = n
  /\ pc' = "semantic"
  /\ UNCHANGED <<results, allDocs, unique, fallbackResults, failed, ret>>
  /\ UNCHANGED <<indexVars, advVars, rerankVars, expandVars, serverVars>>

\* await vectorStore.similaritySearchWithScore(query, k * 2) answers.
SemanticPass ==
  /\ pc = "semantic"
  /\ \E resp \in SemanticResponses(corpus, 2 * k) :
       results' = results \o SemanticCandidates(resp)
  /\ pc' = "keyword"
  /\ UNCHANGED <<query, k, allDocs, unique, fallbackResults, failed, ret>>
  /\ UNCHANGED <<indexVars, advVars, rerankVars, expandVars, serverVars>>

\* await vectorStore.similaritySearchWithScore(query, k * 2) rejects.
SemanticFails ==
  /\ pc = "semantic"
  /\ pc' = "fallback"
  /\ failed' = "semantic"
  /\ UNCHANGED <<query, k, results, allDocs, unique, fallbackResults, ret>>
  /\ UNCHANGED <<indexVars, advVars, rerankVars, expandVars, serverVars>>

\* await vectorStore.similaritySearch("", 1000) answers; the keyword scan,
\* the merge, the sort and the slice follow without another await.
KeywordPass ==
  /\ pc = "keyword"
  /\ \E docs \in ScanResponses(corpus, extra) :
       /\ allDocs' = docs
       /\ results' = results \o KeywordCandidates(docs, Keywords(query))
  /\ unique' = Deduplicate(results')
  /\ ret' = Slice(SortByScore(unique'), k)
  /\ pc' = "done"
  /\ UNCHANGED <<query, k, fallbackResults, failed>>
  /\ UNCHANGED <<indexVars, advVars, rerankVars, expandVars, serverVars>>

\* await vectorStore.similaritySearch("", 1000) rejects.
KeywordFails ==
  /\ pc = "keyword"
  /\ pc' = "fallback"
  /\ failed' = "keyword"
  /\ UNCHANGED <<query, k, results, allDocs, unique, fallbackResults, ret>>
  /\ UNCHANGED <<indexVars, advVars, rerankVars, expandVars, serverVars>>

\* catch: await vectorStore.similaritySearch(query, k) answers.
FallbackPass ==
  /\ pc = "fallback"
  /\ \E docs \in FallbackResponses(corpus, k) :
       /\ fallbackResults' = docs
       /\ ret' = FallbackCandidates(docs)
  /\ pc' = "done"
  /\ UNCHANGED <<query, k, results, allDocs, unique, failed>>
  /\ UNCHANGED <<indexVars, advVars, rerankVars, expandVars, serverVars>>

\* catch: await vectorStore.similaritySearch(query, k) rejects; nothing
\* catches it, so performHybridSearch rejects.
FallbackFails ==
  /\ pc = "fallback"
  /\ pc' = "raised"
  /\ UNCHANGED <<query, k, results, allDocs, unique, fallbackResults, failed, ret>>
  /\ UNCHANGED <<indexVars, advVars, rerankVars, expandVars, serverVars>>

\* The caller has the result (or the rejection); the call's locals are gone
\* and the next call may start.
Finish ==
  /\ pc \in {"done", "raised"}
  /\ pc' = "idle"
  /\ query' = <<>>
  /\ k' = 0
  /\ results' = <<>>
  /\ allDocs' = <<>>
  /\ unique' = <<>>
  /\ fallbackResults' = <<>>
  /\ failed' = "none"
  /\ ret' = <<>>
  /\ UNCHANGED <<indexVars, advVars, rerankVars, expandVars, serverVars>>

Next ==
  \/ StartSearch
  \/ SemanticPass
  \/ SemanticFails
  \/ KeywordPass
  \/ KeywordFails
  \/ FallbackPass
  \/ FallbackFails
  \/ Finish

Spec == Init /\ [][Next]_vars

\* ----------------------------------------- performAdvancedSearch, by steps
\* Queries performAdvancedSearch is called with: no synonym key, the key
\* 'work' (four synonyms, three of them searched), a word that names an
\* inherited property of the synonym table.
AdvQueries ==
  { <<"a","b">>,
    <<"w","o","r","k">>,
    <<"c","o","n","s","t","r","u","c","t","o","r">> }

\* The collections performAdvancedSearch is followed on.
AdvCorpora == SUBSET {1, 2, 4}

InitAdvIndex ==
  /\ corpus \in AdvCorpora
  /\ extra = 0

\* The loop goes on to the next expanded query, or, after the last one, to
\* the merge, the sort and the slice.
AfterSubSearch(newAll, queue, idx) ==
  IF idx < Len(queue)
  THEN /\ apc' = "expanding"
       /\ expIdx' = idx + 1
       /\ calls' = Append(calls, [q |-> queue[idx + 1], n |-> HalfCeil(ak)])
       /\ aunique' = <<>>
       /\ aret' = <<>>
  ELSE /\ apc' = "done"
       /\ expIdx' = idx
       /\ calls' = calls
       /\ aunique' = Deduplicate(newAll)
       /\ aret' = Slice(SortByScore(aunique'), ak)

\* performAdvancedSearch(vectorStore, query, k) is called and awaits
\* performHybridSearch(vectorStore, query, k).
AdvStart ==
  /\ apc = "idle"
  /\ \E q \in AdvQueries, n \in 0..MaxK :
       /\ aquery' = q
       /\ ak' = n
       /\ calls' = << [q |-> q, n |-> n] >>
  /\ apc' = "original"
  /\ UNCHANGED <<allResults, expandedQueries, expIdx, skipped, aunique, aret>>
  /\ UNCHANGED <<indexVars, hybridVars, rerankVars, expandVars, serverVars>>

\* The search of the original query returns; expandQuery(query) runs and
\* either throws or the loop over expandedQueries.slice(1, 4) begins.
OriginalReturns ==
  /\ apc = "original"
  /\ \E r \in HybridReturns(corpus, extra, aquery, ak) : allResults' = r
  /\ IF ExpandQueryThrows(aquery)
     THEN /\ apc' = "threw"
          /\ UNCHANGED <<expandedQueries, expIdx, calls, aunique, aret>>
     ELSE /\ expandedQueries' = Slice14(ExpandQuery(aquery))
          /\ AfterSubSearch(allResults', expandedQueries', 0)
  /\ UNCHANGED <<aquery, ak, skipped>>
  /\ UNCHANGED <<indexVars, hybridVars, rerankVars, expandVars, serverVars>>

\* The search of the original query rejects: it is awaited outside the try,
\* so performAdvancedSearch rejects.
OriginalRaises ==
  /\ apc = "original"
  /\ apc' = "raised"
  /\ UNCHANGED <<aquery, ak, allResults, expandedQueries, expIdx, calls, skipped,
                 aunique, aret>>
  /\ UNCHANGED <<indexVars, hybridVars, rerankVars, expandVars, serverVars>>

\* The search of one expanded query returns: its results are marked and
\* pushed.
ExpansionReturns ==
  /\ apc = "expanding"
  /\ \E r \in HybridReturns(corpus, extra, expandedQueries[expIdx], HalfCeil(ak)) :
       allResults' = allResults \o MarkExpanded(r, expandedQueries[expIdx])
  /\ AfterSubSearch(allResults', expandedQueries, expIdx)
  /\ UNCHANGED <<aquery, ak, expandedQueries, skipped>>
  /\ UNCHANGED <<indexVars, hybridVars, rerankVars, expandVars, serverVars>>

ExpansionPropagates ==
  /\ apc = "expanding"
  /\ apc' = "raised"
  /\ skipped' = Append(skipped, expandedQueries[expIdx])
  /\ UNCHANGED <<aquery, ak, allResults, expandedQueries, expIdx, calls, aunique, aret>>
  /\ UNCHANGED <<indexVars, hybridVars, rerankVars, expandVars, serverVars>>

\* The search of one expanded query rejects: catch, console.warn, next.
ExpansionRaises ==
  /\ apc = "expanding"
  /\ skipped' = Append(skipped, expandedQueries[expIdx])
  /\ AfterSubSearch(allResults, expandedQueries, expIdx)
  /\ UNCHANGED <<aquery, ak, allResults, expandedQueries>>
  /\ UNCHANGED <<indexVars, hybridVars, rerankVars, expandVars, serverVars>>

\* The caller has the result (or the rejection).
AdvFinish ==
  /\ apc \in {"done", "raised", "threw"}
  /\ apc' = "idle"
  /\ aquery' = <<>>
  /\ ak' = 0
  /\ allResults' = <<>>
  /\ expandedQueries' = <<>>
  /\ expIdx' = 0
  /\ calls' = <<>>
  /\ skipped' = <<>>
  /\ aunique' = <<>>
  /\ aret' = <<>>
  /\ UNCHANGED <<indexVars, hybridVars, rerankVars, expandVars, serverVars>>

NextAdvanced ==
  \/ AdvStart
  \/ OriginalReturns
  \/ OriginalRaises
  \/ ExpansionReturns
  \/ ExpansionRaises
  \/ AdvFinish

InitAdvCall ==
  InitAdvIndex /\ InitHybrid /\ InitAdvanced /\ InitRerank /\ InitExpand /\ InitServer

SpecAdvanced == InitAdvCall /\ [][NextAdvanced]_vars

\* ---------------------------------------------------- expandQuery, called
\* Words of the queries expandQuery is called with: no key of the synonym
\* table, a key, the key with a capital, a word that holds the key, a second
\* key, a word that names an inherited property of the table.
QueryWords ==
  { <<"a","b">>,
    <<"w","o","r","k">>,
    <<"W","o","r","k">>,
    <<"h","o","m","e","w","o","r","k">>,
    <<"p","l","a","n">>,
    <<"c","o","n","s","t","r","u","c","t","o","r">> }

\* ws.join(' ')
RECURSIVE JoinBlank(_)
JoinBlank(ws) ==
  IF Len(ws) = 1 THEN ws[1]
  ELSE ws[1] \o <<" ">> \o JoinBlank(Tail(ws))

\* The queries: up to MaxQueryWords of these words with single blanks, and
\* a sentence.
ExpandQueries ==
  { JoinBlank(ws) : ws \in UNION { [1..n -> QueryWords] : n \in 1..MaxQueryWords } }
    \cup { <<"f","i","n","d"," ","m","y"," ","w","o","r","k"," ","n","o","t","e","s">> }

\* expandQuery(query) is called and returns or throws.
CallExpand ==
  /\ epc = "idle"
  /\ \E q \in ExpandQueries :
       /\ equery' = q
       /\ IF ExpandQueryThrows(q)
          THEN epc' = "threw" /\ expanded' = <<>>
          ELSE epc' = "returned" /\ expanded' = ExpandQuery(q)
  /\ UNCHANGED <<indexVars, hybridVars, advVars, rerankVars, serverVars>>

\* The caller has the list (or the exception).
ExpandFinish ==
  /\ epc \in {"returned", "threw"}
  /\ epc' = "idle"
  /\ equery' = <<>>
  /\ expanded' = <<>>
  /\ UNCHANGED <<indexVars, hybridVars, advVars, rerankVars, serverVars>>

NextExpand ==
  \/ CallExpand
  \/ ExpandFinish

InitExpandCall ==
  /\ corpus = {} /\ extra = 0
  /\ InitHybrid /\ InitAdvanced /\ InitRerank /\ InitExpand /\ InitServer

SpecExpand == InitExpandCall /\ [][NextExpand]_vars

\* ------------------------------------------------------------ rerankResults
\* new RegExp(`\\b${word}\\b`, 'gi') throws a SyntaxError for a word with an
\* unclosed group.  (No query of the model holds another character that is
\* special in a regular expression.)
InvalidPattern(word) == \E i \in 1..Len(word) : word[i] = "("

\* \b at position p of s, between s[p] and s[p + 1].
BoundaryAt(s, p) ==
  (p > 0 /\ IsWordChar(s[p])) # (p < Len(s) /\ IsWordChar(s[p + 1]))

\* (s.match(new RegExp(`\\b${word}\\b`, 'gi')) || []).length for a word of
\* word characters: the occurrences of word between two word boundaries.
\* For the empty word the pattern is \b\b, which matches once at every word
\* boundary of s.
CountMatches(s, word) ==
  IF word = <<>>
  THEN Cardinality({p \in 0..Len(s) : BoundaryAt(s, p)})
  ELSE Cardinality({p \in 0..(Len(s) - Len(word)) :
                      /\ SubSeq(s, p + 1, p + Len(word)) = word
                      /\ BoundaryAt(s, p)
                      /\ BoundaryAt(s, p + Len(word))})

\* if (content.includes(query.toLowerCase())) rerankScore += 0.2
ExactPhraseBoost(d, q) ==
  IF Includes(ToLower(Doc(d).pageContent), ToLower(q)) THEN ExactBoost ELSE 0

\* if (fileName.includes(query.toLowerCase())) rerankScore += 0.15
FileNameMatchBoost(d, q) ==
  IF Includes(ToLower(Doc(d).fileName), ToLower(q)) THEN FileNameBoost ELSE 0

\* if (directory.length > 0 &&
\*     query.toLowerCase().split(' ').some(word => directory.includes(word)))
\*   rerankScore += 0.1
DirectoryMatchBoost(d, q) ==
  IF /\ Len(Doc(d).directory) > 0
     /\ \E i \in 1..Len(SplitBlank(ToLower(q))) :
          Includes(ToLower(Doc(d).directory), SplitBlank(ToLower(q))[i])
  THEN DirectoryBoost
  ELSE 0

\* Twice wordFrequency (the directory's weight is 1.5): for every query word
\* contentMatches + fileNameMatches * 2 + directoryMatches * 1.5.
RECURSIVE TwiceWordFrequency(_, _)
TwiceWordFrequency(d, words) ==
  IF words = <<>> THEN 0
  ELSE 2 * CountMatches(ToLower(Doc(d).pageContent), Head(words))
       + 4 * CountMatches(ToLower(Doc(d).fileName), Head(words))
       + 3 * CountMatches(ToLower(Doc(d).directory), Head(words))
       + TwiceWordFrequency(d, Tail(words))

FrequencyUncapped(d, q) ==
  (TwiceWordFrequency(d, SplitWs(ToLower(q))) * FrequencyUnit) \div 2

\* Math.min(wordFrequency * 0.05, 0.3)
FrequencyBoost(d, q) ==
  Min((TwiceWordFrequency(d, SplitWs(ToLower(q))) * FrequencyUnit) \div 2,
      FrequencyCap)

\* if (metadata?.lastModified) { if (daysSinceModified < 30) rerankScore += 0.1 }
RecencyBoostOf(d) ==
  IF Doc(d).lastModified # <<>> /\ Doc(d).lastModified[1] < RecencyDays
  THEN RecencyBoost
  ELSE 0

\* { ...result, rerankScore, originalScore: result.score }
RerankOne(r, q) ==
  [rerankScore |-> r.score + ExactPhraseBoost(r.doc, q) + FileNameMatchBoost(r.doc, q)
                     + DirectoryMatchBoost(r.doc, q) + FrequencyBoost(r.doc, q)
                     + RecencyBoostOf(r.doc),
   originalScore |-> r.score] @@ r

\* Array.prototype.sort((a, b) => b.rerankScore - a.rerankScore): stable.
RECURSIVE InsertByRerank(_, _)
InsertByRerank(sorted, r) ==
  IF sorted = <<>> THEN <<r>>
  ELSE IF Head(sorted).rerankScore >= r.rerankScore
       THEN <<Head(sorted)>> \o InsertByRerank(Tail(sorted), r)
       ELSE <<r>> \o sorted

RECURSIVE SortRerankFrom(_, _)
SortRerankFrom(acc, rs) ==
  IF rs = <<>> THEN acc
  ELSE SortRerankFrom(InsertByRerank(acc, Head(rs)), Tail(rs))

\* rerankResults(results, query), when it returns.
RerankResults(rs, q) ==
  SortRerankFrom(<<>>, [i \in 1..Len(rs) |-> RerankOne(rs[i], q)])

\* rerankResults throws when the map callback runs (results is not empty)
\* and a query word is no valid pattern.
RerankThrows(rs, q) ==
  /\ rs # <<>>
  /\ \E i \in 1..Len(SplitWs(ToLower(q))) : InvalidPattern(SplitWs(ToLower(q))[i])

\* --------------------------------------------------------- relevance filter
RECURSIVE FilterAtLeast(_, _)
FilterAtLeast(rs, t) ==
  IF rs = <<>> THEN <<>>
  ELSE (IF Head(rs).score >= t THEN <<Head(rs)>> ELSE <<>>)
       \o FilterAtLeast(Tail(rs), t)

RECURSIVE FilterBelow(_, _)
FilterBelow(rs, t) ==
  IF rs = <<>> THEN <<>>
  ELSE (IF Head(rs).score < t THEN <<Head(rs)>> ELSE <<>>)
       \o FilterBelow(Tail(rs), t)

\* searchResults.filter(result => result.score > threshold)
RECURSIVE FilterResultsByRelevance(_, _)
FilterResultsByRelevance(rs, t) ==
  IF rs = <<>> THEN <<>>
  ELSE (IF Head(rs).score > t THEN <<Head(rs)>> ELSE <<>>)
       \o FilterResultsByRelevance(Tail(rs), t)

\* result.rerankScore || result.score: a rerankScore of 0 is falsy.
ScoreOr(r) == IF r.rerankScore # 0 THEN r.rerankScore ELSE r.score

\* rerankedResults.filter(result => (result.rerankScore || result.score) > 0.25)
RECURSIVE RelevantResults(_)
RelevantResults(rs) ==
  IF rs = <<>> THEN <<>>
  ELSE (IF ScoreOr(Head(rs)) > WebThreshold THEN <<Head(rs)>> ELSE <<>>)
       \o RelevantResults(Tail(rs))

\* Queries rerankResults is called with (POST /api/query rejects the empty
\* and the blank query): a word that occurs nowhere, a word, the word in upper case, a part of a word, the word with
\* a trailing blank, the full text of chunk 1, two words after two blanks, a
\* word that is no valid pattern.
RerankQueries ==
  { <<"z","z">>,
    <<"j","o","b">>,
    <<"J","O","B">>,
    <<"j","o">>,
    <<"z","z"," ">>,
    <<"w","o","r","k"," ","j","o","b">>,
    <<"z","z"," "," ","w","o","r","k">>,
    <<"j","o","b"," ","(">> }

\* The chunks of the candidates handed to rerankResults and to the filters.
RerankDocs == {1, 2, 5, 6}

\* The scores of those candidates: 0, the two thresholds, a high score.
RerankScores == {0, WebThreshold, CliThreshold, 900}

\* The candidates performHybridSearch builds for those chunks and scores.
RerankCandidates ==
  { [doc |-> d, score |-> sc, type |-> "semantic", relevance |-> Band(sc)]
      : d \in RerankDocs, sc \in RerankScores }

\* The lists performAdvancedSearch and performHybridSearch return: one
\* candidate per identity key, by descending score.
CandidateLists ==
  { rs \in UNION { [1..n -> RerankCandidates] : n \in 0..MaxResults } :
      \A i, j \in 1..Len(rs) :
        i < j => /\ IdentityKey(rs[i]) # IdentityKey(rs[j])
                 /\ rs[i].score >= rs[j].score }

\* -------------------------------------------------------- context strings
\* metadata.fileName || 'Unknown'
EnhancedSource(d) ==
  IF Doc(d).fileName # <<>> THEN Doc(d).fileName
  ELSE <<"U","n","k","n","o","w","n">>

\* metadata.fileName || metadata.source || 'Unknown'
ContextSource(d) ==
  IF Doc(d).fileName # <<>> THEN Doc(d).fileName
  ELSE IF Doc(d).source # <<>> THEN Doc(d).source
  ELSE <<"U","n","k","n","o","w","n">>

\* One block of buildEnhancedContext: the parts of the template string.  A
\* score part is <<x>> for x.toFixed(3); originalScore is <<>> where the
\* template puts ''.  rerankScore ? ... : ...  and  originalScore ? ... : ''
\* take 0 as absent.
EnhancedBlock(r, index) ==
  [label |-> index + 1,
   source |-> EnhancedSource(r.doc),
   directoryInfo |-> Doc(r.doc).directory,
   relevance |-> r.relevance,
   score |-> IF "rerankScore" \in DOMAIN r /\ r.rerankScore # 0
             THEN <<r.rerankScore>> ELSE <<r.score>>,
   originalScore |-> IF "originalScore" \in DOMAIN r /\ r.originalScore # 0
                     THEN <<r.originalScore>> ELSE <<>>,
   type |-> r.type,
   text |-> Doc(r.doc).pageContent]

BlocksReversed(rs) ==
  [i \in 1..Len(rs) |-> EnhancedBlock(rs[Len(rs) + 1 - i], i - 1)]

\* buildEnhancedContext(results): results.map((result, index) => block), the
\* blocks joined by "\n\n---\n\n".
BuildEnhancedContext(rs) ==
  [i \in 1..Len(rs) |-> EnhancedBlock(rs[i], i - 1)]

\* One block of buildContextFromResults.
ContextBlock(r, index) ==
  [label |-> index + 1,
   source |-> ContextSource(r.doc),
   relevance |-> r.relevance,
   score |-> <<r.score>>,
   type |-> r.type,
   text |-> Doc(r.doc).pageContent]

\* buildContextFromResults(results)
BuildContextFromResults(rs) ==
  [i \in 1..Len(rs) |-> ContextBlock(rs[i], i - 1)]

\* ------------------------------------------------------------- the requests
\* process.env.RELEVANCE_THRESHOLD: unset (<<>>), or a number in thousandths.
EnvThresholds == { <<>>, <<0>>, <<CliThreshold>>, <<MediumBand>> }

\* parseFloat(process.env.RELEVANCE_THRESHOLD) || 0.25
LoadRelevanceThreshold(env) ==
  IF env = <<>> \/ env[1] = 0 THEN DefaultRelevanceThreshold ELSE env[1]

\* POST /api/init and POST /api/refresh: this.config = loadConfig().
LoadConfig ==
  /\ rpc = "idle"
  /\ \E env \in EnvThresholds : relevanceThreshold' = LoadRelevanceThreshold(env)
  /\ UNCHANGED <<rquery, rinput, rpc, reranked, threshold, relevant, outcome, context>>
  /\ UNCHANGED <<indexVars, hybridVars, advVars, expandVars, serverVars>>

\* POST /api/query: rerankResults(searchResults, query) is called on what
\* performAdvancedSearch returned and returns, or throws into the handler's
\* catch (status 500).
CallRerank ==
  /\ rpc = "idle"
  /\ \E q \in RerankQueries, rs \in CandidateLists :
       /\ rquery' = q
       /\ rinput' = rs
       /\ IF RerankThrows(rs, q)
          THEN rpc' = "raised" /\ reranked' = <<>> /\ outcome' = "Error"
          ELSE rpc' = "ranked" /\ reranked' = RerankResults(rs, q) /\ outcome' = outcome
  /\ UNCHANGED <<threshold, relevant, relevanceThreshold, context>>
  /\ UNCHANGED <<indexVars, hybridVars, advVars, expandVars, serverVars>>

\* POST /api/query: no reranked result, "No relevant information found".
WebNoResults ==
  /\ rpc = "ranked"
  /\ reranked = <<>>
  /\ outcome' = "NoResults"
  /\ rpc' = "answered"
  /\ UNCHANGED <<rquery, rinput, reranked, threshold, relevant, relevanceThreshold, context>>
  /\ UNCHANGED <<indexVars, hybridVars, advVars, expandVars, serverVars>>

\* POST /api/query filters the reranked results: none left is "low
\* relevance scores"; otherwise the context is built and the model answers
\* (or llm.invoke rejects into the catch).
WebFilter ==
  /\ rpc = "ranked"
  /\ reranked # <<>>
  /\ threshold' = WebThreshold
  /\ relevant' = RelevantResults(reranked)
  /\ IF relevant' = <<>>
     THEN outcome' = "BelowThreshold" /\ context' = <<>>
     ELSE outcome' \in {"Answer", "Error"} /\ context' = BuildEnhancedContext(relevant')
  /\ rpc' = "filtered"
  /\ UNCHANGED <<rquery, rinput, reranked, relevanceThreshold>>
  /\ UNCHANGED <<indexVars, hybridVars, advVars, expandVars, serverVars>>

\* processQuery (CLI): performHybridSearch returned nothing, "No relevant
\* information found in your notes."
CliNoResults ==
  /\ rpc = "idle"
  /\ outcome' = "NoResults"
  /\ rpc' = "cliempty"
  /\ UNCHANGED <<rquery, rinput, reranked, threshold, relevant, relevanceThreshold, context>>
  /\ UNCHANGED <<indexVars, hybridVars, advVars, expandVars, serverVars>>

\* processQuery (CLI) filters the results of performHybridSearch:
\* filterResultsByRelevance(searchResults, 0.3); none left is "low relevance
\* scores", otherwise the context is built and the model answers.
CliFilter ==
  /\ rpc = "idle"
  /\ \E rs \in CandidateLists \ {<<>>} :
       /\ rinput' = rs
       /\ relevant' = FilterResultsByRelevance(rs, CliThreshold)
  /\ threshold' = CliThreshold
  /\ IF relevant' = <<>>
     THEN outcome' = "BelowThreshold" /\ context' = <<>>
     ELSE outcome' \in {"Answer", "Error"} /\ context' = BuildContextFromResults(relevant')
  /\ rpc' = "clifiltered"
  /\ UNCHANGED <<rquery, reranked, relevanceThreshold>>
  /\ UNCHANGED <<indexVars, hybridVars, advVars, expandVars, serverVars>>

\* The request is answered.
RerankFinish ==
  /\ rpc \in {"raised", "answered", "filtered", "cliempty", "clifiltered"}
  /\ rpc' = "idle"
  /\ rquery' = <<>>
  /\ rinput' = <<>>
  /\ reranked' = <<>>
  /\ threshold' = 0
  /\ relevant' = <<>>
  /\ outcome' = "none"
  /\ context' = <<>>
  /\ UNCHANGED relevanceThreshold
  /\ UNCHANGED <<indexVars, hybridVars, advVars, expandVars, serverVars>>

NextRerank ==
  \/ LoadConfig
  \/ CallRerank
  \/ WebNoResults
  \/ WebFilter
  \/ CliNoResults
  \/ CliFilter
  \/ RerankFinish

\* The collection holds the chunks of the candidates.
InitRerankIndex ==
  /\ corpus = RerankDocs
  /\ extra = 0

InitRerankCall ==
  InitRerankIndex /\ InitHybrid /\ InitAdvanced /\ InitRerank /\ InitExpand
    /\ InitServer

SpecRerank == InitRerankCall /\ [][NextRerank]_vars

\* Calls of performHybridSearch and of performAdvancedSearch, one at a time.
NextMerge ==
  \/ apc = "idle" /\ Next
  \/ pc = "idle" /\ corpus \in AdvCorpora /\ extra = 0 /\ NextAdvanced

SpecMerge == Init /\ [][NextMerge]_vars

\* ------------------------------------------------- splitDocumentsIntoChunks
\* parseInt(process.env.X) || d
IntOr(value, d) == IF value = <<>> \/ value[1] = 0 THEN d ELSE value[1]

\* process.env.X !== 'false'
NotFalse(value) == value # <<"false">>

\* loadConfig(): throws where OBSIDIAN_VAULT_PATH is not set (<<>> here).
LoadConfigThrows(e) == e.OBSIDIAN_VAULT_PATH = <<>>

LoadedConfig(e) ==
  [docsPath |-> e.OBSIDIAN_VAULT_PATH[1],
   searchResultsCount |-> IntOr(e.SEARCH_RESULTS_COUNT, DefaultResultsCount),
   enableQueryExpansion |-> NotFalse(e.ENABLE_QUERY_EXPANSION),
   enableReranking |-> NotFalse(e.ENABLE_RERANKING),
   chunkSize |-> IntOr(e.CHUNK_SIZE, DefaultChunkSize),
   chunkOverlap |-> IntOr(e.CHUNK_OVERLAP, DefaultChunkOverlap)]

\* The lengths of the chunks RecursiveCharacterTextSplitter cuts a text of
\* len characters into when no separator but "" applies: pieces of size
\* characters, each beginning overlap characters before the end of the one
\* before; a text that fits is one chunk.
RECURSIVE SplitLengths(_, _, _)
SplitLengths(len, size, overlap) ==
  IF len <= size THEN <<len>>
  ELSE <<size>> \o SplitLengths(len - (size - overlap), size, overlap)

\* What a splitter made with chunkSize and chunkOverlap of cfg gives.
SplitWithConfig(doc, cfg) ==
  LET lens == SplitLengths(doc.length, cfg.chunkSize, cfg.chunkOverlap)
  IN [i \in 1..Len(lens) |-> [length |-> lens[i], metadata |-> doc.metadata]]

\* textSplitter.createDocuments([doc.pageContent], [doc.metadata]) with the
\* splitter the function constructs: every chunk has the document's
\* metadata.
SplitDocumentsIntoChunks(doc) ==
  LET lens == SplitLengths(doc.length, SplitterChunkSize, SplitterChunkOverlap)
  IN [i \in 1..Len(lens) |-> [length |-> lens[i], metadata |-> doc.metadata]]

\* CHUNK_SIZE and CHUNK_OVERLAP of the environment, the overlap below the
\* size.
ChunkEnvs ==
  { [DefaultEnv EXCEPT !.CHUNK_SIZE = sz, !.CHUNK_OVERLAP = ov] :
      sz \in { <<>>, <<DefaultChunkSize \div 2>>, <<DefaultChunkSize * 2>> },
      ov \in { <<>>, <<DefaultChunkOverlap \div 3>>, <<DefaultChunkOverlap + 1>> } }

\* The documents: texts of 300, 600, ... characters, and one of one
\* character more than the splitter's chunk size.
SplitDocs ==
  { [length |-> n, metadata |-> src] :
      n \in { i * SplitterChunkOverlap : i \in 1..MaxDocSteps } \cup {SplitterChunkSize + 1},
      src \in {"/old/a.md", "/old/b/c.md"} }

\* loadConfig() and splitDocumentsIntoChunks(docs) on one document, as POST
\* /api/init and POST /api/refresh call them.
CallSplit ==
  /\ splitCall.pc = "idle"
  /\ \E e \in ChunkEnvs, doc \in SplitDocs :
       splitCall' = [pc |-> "returned", config |-> LoadedConfig(e), doc |-> doc,
                     chunks |-> SplitDocumentsIntoChunks(doc)]
  /\ UNCHANGED <<processEnv, envFile, config, vectorStore, handles, collection, initReq,
                 refreshReq, queryReq, vaultReq, cli>>
  /\ UNCHANGED <<indexVars, hybridVars, advVars, rerankVars, expandVars>>

SplitFinish ==
  /\ splitCall.pc = "returned"
  /\ splitCall' = NoRequest
  /\ UNCHANGED <<processEnv, envFile, config, vectorStore, handles, collection, initReq,
                 refreshReq, queryReq, vaultReq, cli>>
  /\ UNCHANGED <<indexVars, hybridVars, advVars, rerankVars, expandVars>>

NextSplit ==
  \/ CallSplit
  \/ SplitFinish

InitSplitCall ==
  /\ corpus = {} /\ extra = 0
  /\ InitHybrid /\ InitAdvanced /\ InitRerank /\ InitExpand /\ InitServer

SpecSplit == InitSplitCall /\ [][NextSplit]_vars

\* ------------------------------------------------------------ the web server
\* The chunks splitDocumentsIntoChunks makes of the documents on disk: one
\* more than a batch.
DiskChunks == BatchSize + 1

\* chunks.slice(i, i + batchSize) for i = 0, batchSize, ...: batch b as
\* <<first, last>> of the chunks it holds.
Batches(n) ==
  [b \in 1..((n + BatchSize - 1) \div BatchSize) |->
     <<(b - 1) * BatchSize + 1, Min(b * BatchSize, n)>>]

\* The collection after the chunks on disk were added once to an empty one.
CompleteIndex == [exists |-> TRUE, batches |-> Batches(DiskChunks)]

\* vectorStore.addDocuments(batch): the collection is created where it does
\* not exist.
AddDocuments(c, batch) == [exists |-> TRUE, batches |-> Append(c.batches, batch)]

\* checkCollectionExists: similaritySearch("test", 1) finds a document; an
\* error is false.
CollectionHasDocuments(c) == c.exists /\ c.batches # <<>>

\* The sub-searches of performAdvancedSearch(vectorStore, q, n) when every
\* one returns.
SubSearches(q, n) ==
  << [q |-> q, n |-> n] >>
    \o [j \in 1..Len(Slice14(ExpandQuery(q))) |->
          [q |-> Slice14(ExpandQuery(q))[j], n |-> HalfCeil(n)]]

\* What is left alone by a step of one request.
otherThanInit ==
  <<processEnv, envFile, refreshReq, queryReq, vaultReq, cli, splitCall>>

otherThanRefresh ==
  <<processEnv, envFile, initReq, queryReq, vaultReq, cli, splitCall>>

otherThanQuery ==
  <<processEnv, envFile, initReq, refreshReq, vaultReq, cli, splitCall>>

searchVars == <<indexVars, hybridVars, advVars, rerankVars, expandVars>>

\* res.json / res.status(code).json
Answer(code, message) == [pc |-> "done", status |-> code, message |-> message]

\* ---------------------------------------------------------- POST /api/init
\* The handler up to its first await: answers at once where this.vectorStore
\* is set; otherwise loads the configuration and awaits validateOllama.
InitStart(i) ==
  /\ initReq[i].pc = "idle"
  /\ handles < MaxHandles
  /\ IF vectorStore # 0
     THEN /\ initReq' = [initReq EXCEPT ![i] =
                             Answer(200, "already initialized") @@ [made |-> 0]]
          /\ config' = config
     ELSE IF LoadConfigThrows(processEnv)
     THEN /\ initReq' = [initReq EXCEPT ![i] = Answer(500, "error") @@ [made |-> 0]]
          /\ config' = config
     ELSE /\ initReq' = [initReq EXCEPT ![i] = [pc |-> "ollama", made |-> 0]]
          /\ config' = LoadedConfig(processEnv)
  /\ UNCHANGED <<vectorStore, handles, collection>>
  /\ UNCHANGED <<otherThanInit, searchVars>>

\* validateOllama or createEmbeddings throws: catch, status 500.
InitOllamaFails(i) ==
  /\ initReq[i].pc = "ollama"
  /\ initReq' = [initReq EXCEPT ![i] = Answer(500, "error") @@ [made |-> 0]]
  /\ UNCHANGED <<config, vectorStore, handles, collection>>
  /\ UNCHANGED <<otherThanInit, searchVars>>

\* this.vectorStore = createVectorStore(embeddings, chromaUrl); then
\* checkCollectionExists is awaited.
InitCreateStore(i) ==
  /\ initReq[i].pc = "ollama"
  /\ handles' = handles + 1
  /\ vectorStore' = handles'
  /\ initReq' = [initReq EXCEPT ![i] = [pc |-> "checking", made |-> handles']]
  /\ UNCHANGED <<config, collection>>
  /\ UNCHANGED <<otherThanInit, searchVars>>

\* checkCollectionExists answers: with documents the handler answers
\* success, without it awaits validateDocumentsPath.
InitCheck(i) ==
  /\ initReq[i].pc = "checking"
  /\ IF CollectionHasDocuments(collection)
     THEN initReq' = [initReq EXCEPT ![i] =
                        Answer(200, "initialized") @@ [made |-> initReq[i].made]]
     ELSE initReq' = [initReq EXCEPT ![i].pc = "validating"]
  /\ UNCHANGED <<config, vectorStore, handles, collection>>
  /\ UNCHANGED <<otherThanInit, searchVars>>

\* validateDocumentsPath is false: status 400, 'Invalid documents path'.
InitPathInvalid(i) ==
  /\ initReq[i].pc = "validating"
  /\ initReq' = [initReq EXCEPT ![i] =
                   Answer(400, "Invalid documents path") @@ [made |-> initReq[i].made]]
  /\ UNCHANGED <<config, vectorStore, handles, collection>>
  /\ UNCHANGED <<otherThanInit, searchVars>>

\* The documents are loaded and split; addChunksToVectorStore begins.
InitLoaded(i) ==
  /\ initReq[i].pc = "validating"
  /\ initReq' = [initReq EXCEPT ![i] =
                   [pc |-> "adding", made |-> initReq[i].made, next |-> 1]]
  /\ UNCHANGED <<config, vectorStore, handles, collection>>
  /\ UNCHANGED <<otherThanInit, searchVars>>

\* await vectorStore.addDocuments(batch); after the last batch the handler
\* answers success.
InitAddBatch(i) ==
  /\ initReq[i].pc = "adding"
  /\ collection' = AddDocuments(collection, Batches(DiskChunks)[initReq[i].next])
  /\ IF initReq[i].next < Len(Batches(DiskChunks))
     THEN initReq' = [initReq EXCEPT ![i].next = @ + 1]
     ELSE initReq' = [initReq EXCEPT ![i] =
                        Answer(200, "initialized") @@ [made |-> initReq[i].made]]
  /\ UNCHANGED <<config, vectorStore, handles>>
  /\ UNCHANGED <<otherThanInit, searchVars>>

\* addDocuments rejects: catch, status 500.
InitAddFails(i) ==
  /\ initReq[i].pc = "adding"
  /\ initReq' = [initReq EXCEPT ![i] = Answer(500, "error") @@ [made |-> initReq[i].made]]
  /\ UNCHANGED <<config, vectorStore, handles, collection>>
  /\ UNCHANGED <<otherThanInit, searchVars>>

\* The client has the answer.
InitDone(i) ==
  /\ initReq[i].pc = "done"
  /\ initReq' = [initReq EXCEPT ![i] = NoRequest]
  /\ UNCHANGED <<config, vectorStore, handles, collection>>
  /\ UNCHANGED <<otherThanInit, searchVars>>

\* ------------------------------------------------------- POST /api/refresh
\* The handler up to its first await: this.config = loadConfig(), then
\* validateDocumentsPath is awaited. "before" keeps what the request found.
RefreshStart ==
  /\ refreshReq.pc = "idle"
  /\ handles < MaxHandles
  /\ IF LoadConfigThrows(processEnv)
     THEN /\ refreshReq' = Answer(500, "error")
                             @@ [before |-> [collection |-> collection, vectorStore |-> vectorStore]]
          /\ config' = config
     ELSE /\ refreshReq' = [pc |-> "validating",
                            before |-> [collection |-> collection, vectorStore |-> vectorStore]]
          /\ config' = LoadedConfig(processEnv)
  /\ UNCHANGED <<vectorStore, handles, collection>>
  /\ UNCHANGED <<otherThanRefresh, searchVars>>

\* validateDocumentsPath is false: status 400, 'Invalid documents path'.
RefreshPathInvalid ==
  /\ refreshReq.pc = "validating"
  /\ refreshReq' = Answer(400, "Invalid documents path") @@ [before |-> refreshReq.before]
  /\ UNCHANGED <<config, vectorStore, handles, collection>>
  /\ UNCHANGED <<otherThanRefresh, searchVars>>

\* The documents are loaded and split; with a vectorStore the old
\* collection is deleted next, without one the embeddings are made next.
RefreshLoaded ==
  /\ refreshReq.pc = "validating"
  /\ refreshReq' = [refreshReq EXCEPT !.pc = IF vectorStore # 0 THEN "deleting" ELSE "embedding"]
  /\ UNCHANGED <<config, vectorStore, handles, collection>>
  /\ UNCHANGED <<otherThanRefresh, searchVars>>

\* await this.vectorStore.deleteCollection()
RefreshDelete ==
  /\ refreshReq.pc = "deleting"
  /\ collection' = NoCollection
  /\ refreshReq' = [refreshReq EXCEPT !.pc = "embedding"]
  /\ UNCHANGED <<config, vectorStore, handles>>
  /\ UNCHANGED <<otherThanRefresh, searchVars>>

\* deleteCollection rejects: the inner catch logs 'No existing collection to
\* delete' and the handler goes on.
RefreshDeleteFails ==
  /\ refreshReq.pc = "deleting"
  /\ refreshReq' = [refreshReq EXCEPT !.pc = "embedding"]
  /\ UNCHANGED <<config, vectorStore, handles, collection>>
  /\ UNCHANGED <<otherThanRefresh, searchVars>>

\* createEmbeddings rejects: catch, status 500.
RefreshEmbeddingFails ==
  /\ refreshReq.pc = "embedding"
  /\ refreshReq' = Answer(500, "error") @@ [before |-> refreshReq.before]
  /\ UNCHANGED <<config, vectorStore, handles, collection>>
  /\ UNCHANGED <<otherThanRefresh, searchVars>>

\* this.vectorStore = createVectorStore(embeddings, chromaUrl); then
\* addChunksToVectorStore begins.
RefreshCreateStore ==
  /\ refreshReq.pc = "embedding"
  /\ handles' = handles + 1
  /\ vectorStore' = handles'
  /\ refreshReq' = [pc |-> "adding", before |-> refreshReq.before, next |-> 1]
  /\ UNCHANGED <<config, collection>>
  /\ UNCHANGED <<otherThanRefresh, searchVars>>

\* await vectorStore.addDocuments(batch); after the last batch the handler
\* answers success.
RefreshAddBatch ==
  /\ refreshReq.pc = "adding"
  /\ collection' = AddDocuments(collection, Batches(DiskChunks)[refreshReq.next])
  /\ IF refreshReq.next < Len(Batches(DiskChunks))
     THEN refreshReq' = [refreshReq EXCEPT !.next = @ + 1]
     ELSE refreshReq' = Answer(200, "refreshed") @@ [before |-> refreshReq.before]
  /\ UNCHANGED <<config, vectorStore, handles>>
  /\ UNCHANGED <<otherThanRefresh, searchVars>>

\* addDocuments rejects: catch, status 500.
RefreshAddFails ==
  /\ refreshReq.pc = "adding"
  /\ refreshReq' = Answer(500, "error") @@ [before |-> refreshReq.before]
  /\ UNCHANGED <<config, vectorStore, handles, collection>>
  /\ UNCHANGED <<otherThanRefresh, searchVars>>

\* The client has the answer.
RefreshDone ==
  /\ refreshReq.pc = "done"
  /\ refreshReq' = NoRequest
  /\ UNCHANGED <<config, vectorStore, handles, collection>>
  /\ UNCHANGED <<otherThanRefresh, searchVars>>

\* --------------------------------------------------------- POST /api/query
\* A handler that makes the collection it reads from.
QuerySearchCreatesCollection ==
  /\ queryReq.pc = "searching"
  /\ queryReq' = Answer(200, "answered")
                   @@ [q |-> queryReq.q, route |-> queryReq.route, searched |-> TRUE,
                       subSearches |-> <<>>, reranked |-> FALSE, seen |-> collection,
                       inRefresh |-> FALSE, old |-> collection]
  /\ collection' = [exists |-> TRUE, batches |-> <<>>]
  /\ UNCHANGED <<config, vectorStore, handles>>
  /\ UNCHANGED <<processEnv, envFile, initReq, refreshReq, vaultReq, cli, splitCall>>
  /\ UNCHANGED <<indexVars, hybridVars, advVars, rerankVars, expandVars>>

ServerQueries == { <<"w","o","r","k">>, <<"z","z">> }

RefreshInFlight == refreshReq.pc \notin {"idle", "done"}

\* A handler up to its first await, POST /api/query or POST
\* /api/debug/search: status 400 without a vectorStore, otherwise
\* performAdvancedSearch(this.vectorStore, query, 8) or
\* performHybridSearch(this.vectorStore, query, 3) is called.
QueryStart ==
  /\ queryReq.pc = "idle"
  /\ \E q \in ServerQueries, route \in {"query", "debug"} :
       IF vectorStore = 0
       THEN queryReq' = Answer(400, "RAG system not initialized")
                          @@ [q |-> q, route |-> route, searched |-> FALSE]
       ELSE queryReq' = [pc |-> "searching", q |-> q, route |-> route]
  /\ UNCHANGED <<config, vectorStore, handles, collection>>
  /\ UNCHANGED <<otherThanQuery, searchVars>>

\* The answers a handler can give once it searches.
QueryMessages(route) ==
  IF route = "query"
  THEN {"search failed", "answered", "generation failed"}
  ELSE {"search failed", "answered"}

\* The searches read the collection; POST /api/query reranks, filters and
\* answers from the results; a step that rejects goes into the catch
\* (status 500). "seen" is the collection the searches read, "old" the one a
\* refresh in flight found.
QuerySearch ==
  /\ queryReq.pc = "searching"
  /\ \E message \in QueryMessages(queryReq.route) :
       queryReq' =
         Answer(IF message = "answered" THEN 200 ELSE 500, message)
           @@ [q |-> queryReq.q,
               route |-> queryReq.route,
               searched |-> TRUE,
               subSearches |-> IF queryReq.route = "query"
                               THEN SubSearches(queryReq.q, WebK)
                               ELSE << [q |-> queryReq.q, n |-> DebugK] >>,
               reranked |-> queryReq.route = "query" /\ message # "search failed",
               seen |-> collection,
               inRefresh |-> RefreshInFlight,
               old |-> IF RefreshInFlight THEN refreshReq.before.collection ELSE collection]
  /\ UNCHANGED <<config, vectorStore, handles, collection>>
  /\ UNCHANGED <<otherThanQuery, searchVars>>

\* The client has the answer.
QueryDone ==
  /\ queryReq.pc = "done"
  /\ queryReq' = NoRequest
  /\ UNCHANGED <<config, vectorStore, handles, collection>>
  /\ UNCHANGED <<otherThanQuery, searchVars>>

NextQuery ==
  \/ QueryStart
  \/ QuerySearch
  \/ QueryDone

\* ------------------------------------------------------ the server's runs
\* The environment the server is started with: the defaults, or the
\* documented switches set.
ServerEnvs ==
  { DefaultEnv,
    [DefaultEnv EXCEPT !.SEARCH_RESULTS_COUNT = <<3>>,
                       !.ENABLE_QUERY_EXPANSION = <<"false">>,
                       !.ENABLE_RERANKING = <<"false">>] }

NextInit ==
  \/ \E i \in InitRequests :
       \/ InitStart(i)
       \/ InitOllamaFails(i)
       \/ InitCreateStore(i)
       \/ InitCheck(i)
       \/ InitPathInvalid(i)
       \/ InitLoaded(i)
       \/ InitAddBatch(i)
       \/ InitAddFails(i)
       \/ InitDone(i)
  \/ NextQuery

\* A new server; the collection is absent.
InitInitCall ==
  /\ corpus = {} /\ extra = 0
  /\ InitHybrid /\ InitAdvanced /\ InitRerank /\ InitExpand
  /\ processEnv \in ServerEnvs
  /\ NewServer
  /\ NoRequests

SpecInit == InitInitCall /\ [][NextInit]_vars

NextRefresh ==
  \/ RefreshStart
  \/ RefreshPathInvalid
  \/ RefreshLoaded
  \/ RefreshDelete
  \/ RefreshDeleteFails
  \/ RefreshEmbeddingFails
  \/ RefreshCreateStore
  \/ RefreshAddBatch
  \/ RefreshAddFails
  \/ RefreshDone
  \/ NextQuery

\* The server after POST /api/init has answered success on an absent
\* collection: the configuration is loaded, the first vectorStore is held
\* and the collection holds the chunks on disk.
InitRefreshCall ==
  /\ corpus = {} /\ extra = 0
  /\ InitHybrid /\ InitAdvanced /\ InitRerank /\ InitExpand
  /\ processEnv \in ServerEnvs
  /\ config = LoadedConfig(processEnv)
  /\ vectorStore = 1
  /\ handles = 1
  /\ collection = CompleteIndex
  /\ NoRequests

SpecRefresh == InitRefreshCall /\ [][NextRefresh]_vars

\* ------------------------------------------------- the vault path setting
VaultKey == "OBSIDIAN_VAULT_PATH"

\* A line of .env holds the text 'OBSIDIAN_VAULT_PATH=': the key itself or
\* the key commented out.
HoldsVaultKey(line) == line.key \in {VaultKey, "#OBSIDIAN_VAULT_PATH"}

\* envContent.includes('OBSIDIAN_VAULT_PATH=')
IncludesVaultKey(lines) == \E j \in 1..Len(lines) : HoldsVaultKey(lines[j])

\* envContent.replace(/OBSIDIAN_VAULT_PATH=.*/, 'OBSIDIAN_VAULT_PATH=' + newPath):
\* the first match, to the end of its line.
ReplaceVaultPath(lines, newPath) ==
  LET first == CHOOSE j \in 1..Len(lines) :
                 /\ HoldsVaultKey(lines[j])
                 /\ \A h \in 1..(j - 1) : ~HoldsVaultKey(lines[h])
  IN [lines EXCEPT ![first].value = newPath]

\* The .env file updateVaultPath writes where the file could be read.
UpdatedEnvLines(lines, newPath) ==
  IF IncludesVaultKey(lines)
  THEN ReplaceVaultPath(lines, newPath)
  ELSE Append(lines, [key |-> VaultKey, value |-> newPath])

\* import 'dotenv/config': a key of .env is set where the environment does
\* not hold it.
DotenvConfig(shell, file) ==
  IF shell.OBSIDIAN_VAULT_PATH = <<>>
       /\ \E j \in 1..Len(file.lines) : file.lines[j].key = VaultKey
  THEN [shell EXCEPT !.OBSIDIAN_VAULT_PATH =
          << file.lines[CHOOSE j \in 1..Len(file.lines) : file.lines[j].key = VaultKey].value >>]
  ELSE shell

VaultPaths == {"/old", "/new", "/notes"}

\* The .env files the server is started with.
EnvFiles ==
  { NoEnvFile,
    [exists |-> TRUE, lines |-> <<>>],
    [exists |-> TRUE, lines |-> << [key |-> VaultKey, value |-> "/old"] >>],
    [exists |-> TRUE, lines |-> << [key |-> "OLLAMA_MODEL", value |-> "llama3"] >>],
    [exists |-> TRUE, lines |-> << [key |-> "#OBSIDIAN_VAULT_PATH", value |-> "/old"],
                                   [key |-> VaultKey, value |-> "/old"] >>] }

\* The environment the server process is started in.
ShellEnvs == { DefaultEnv, [DefaultEnv EXCEPT !.OBSIDIAN_VAULT_PATH = <<>>] }

otherThanVault ==
  <<config, vectorStore, handles, collection, initReq, refreshReq, queryReq, cli, splitCall>>

\* POST /api/settings/vault-path up to its first await: status 400 without
\* a vaultPath, otherwise validateDocumentsPath is awaited.
VaultPost ==
  /\ vaultReq.pc = "idle"
  /\ \E body \in {<<>>} \cup { <<path>> : path \in VaultPaths } :
       IF body = <<>>
       THEN vaultReq' = Answer(400, "Vault path is required") @@ [route |-> "post"]
       ELSE vaultReq' = [pc |-> "validating", route |-> "post", vaultPath |-> body[1]]
  /\ UNCHANGED <<processEnv, envFile>>
  /\ UNCHANGED <<otherThanVault, searchVars>>

\* validateDocumentsPath is false: status 400.
VaultPathInvalid ==
  /\ vaultReq.pc = "validating"
  /\ vaultReq' = Answer(400, "Invalid vault path") @@ [route |-> "post"]
  /\ UNCHANGED <<processEnv, envFile>>
  /\ UNCHANGED <<otherThanVault, searchVars>>

\* updateVaultPath(vaultPath) returns true: .env could not be read and is
\* written anew, or it was read, is written with the path replaced or added
\* and process.env.OBSIDIAN_VAULT_PATH is set.
VaultUpdate ==
  /\ vaultReq.pc = "validating"
  /\ \E readable \in {envFile.exists, FALSE} :
       IF ~readable
       THEN /\ envFile' = [exists |-> TRUE,
                           lines |-> << [key |-> VaultKey, value |-> vaultReq.vaultPath] >>]
            /\ processEnv' = processEnv
       ELSE /\ envFile' = [exists |-> TRUE,
                           lines |-> UpdatedEnvLines(envFile.lines, vaultReq.vaultPath)]
            /\ processEnv' = [processEnv EXCEPT !.OBSIDIAN_VAULT_PATH = <<vaultReq.vaultPath>>]
  /\ vaultReq' = Answer(200, "Vault path updated successfully")
                   @@ [route |-> "post", vaultPath |-> vaultReq.vaultPath]
  /\ UNCHANGED <<otherThanVault, searchVars>>

\* writeFile rejects: updateVaultPath returns false, the handler throws
\* 'Failed to update vault path', status 500.
VaultWriteFails ==
  /\ vaultReq.pc = "validating"
  /\ vaultReq' = Answer(500, "Failed to update vault path") @@ [route |-> "post"]
  /\ UNCHANGED <<processEnv, envFile>>
  /\ UNCHANGED <<otherThanVault, searchVars>>

\* GET /api/settings/vault-path: loadConfig().docsPath, or status 500 where
\* loadConfig throws.
VaultGet ==
  /\ vaultReq.pc = "idle"
  /\ IF LoadConfigThrows(processEnv)
     THEN vaultReq' = Answer(500, "OBSIDIAN_VAULT_PATH is not set") @@ [route |-> "get"]
     ELSE vaultReq' = Answer(200, "ok")
                        @@ [route |-> "get", vaultPath |-> LoadedConfig(processEnv).docsPath]
  /\ UNCHANGED <<processEnv, envFile>>
  /\ UNCHANGED <<otherThanVault, searchVars>>

\* The client has the answer.
VaultDone ==
  /\ vaultReq.pc = "done"
  /\ vaultReq' = NoRequest
  /\ UNCHANGED <<processEnv, envFile>>
  /\ UNCHANGED <<otherThanVault, searchVars>>

NextSettings ==
  \/ VaultPost
  \/ VaultPathInvalid
  \/ VaultUpdate
  \/ VaultWriteFails
  \/ VaultGet
  \/ VaultDone

\* A new server, started with or without a .env file.
InitSettingsCall ==
  /\ corpus = {} /\ extra = 0
  /\ InitHybrid /\ InitAdvanced /\ InitRerank /\ InitExpand
  /\ envFile \in EnvFiles
  /\ \E shell \in ShellEnvs : processEnv = DotenvConfig(shell, envFile)
  /\ NewServer
  /\ initReq = [i \in InitRequests |-> NoRequest]
  /\ refreshReq = NoRequest
  /\ queryReq = NoRequest
  /\ vaultReq = NoRequest
  /\ cli = NoCli
  /\ splitCall = NoRequest

SpecSettings == InitSettingsCall /\ [][NextSettings]_vars

\* ------------------------------------------------------------ the CLI loop
otherThanCli ==
  <<processEnv, envFile, config, vectorStore, handles, collection,
    initReq, refreshReq, queryReq, vaultReq, splitCall>>

rerankIdle ==
  /\ rpc' = "idle"
  /\ rquery' = <<>>
  /\ rinput' = <<>>
  /\ reranked' = <<>>
  /\ threshold' = 0
  /\ relevant' = <<>>
  /\ outcome' = "none"
  /\ context' = <<>>
  /\ UNCHANGED relevanceThreshold

\* A promise rejected in the callback of rl.question has no handler: the
\* process ends, or goes on with no question pending.
Unhandled == {"crashed", "hung"}

\* startCLI: the readline interface is made and promptUser() shows the
\* first prompt.
StartCLI ==
  /\ cli.pc = "stopped"
  /\ cli' = [pc |-> "prompt", asked |-> 0, prompts |-> 1, last |-> "none"]
  /\ UNCHANGED <<otherThanCli, searchVars>>

\* 'exit' is entered: rl.close().
CliExit ==
  /\ cli.pc = "prompt"
  /\ cli' = [cli EXCEPT !.pc = "closed", !.last = "exit"]
  /\ UNCHANGED <<otherThanCli, searchVars>>

\* 'test' is entered: handleTestCommand lists documents or logs the error,
\* then calls promptUser().
CliTest ==
  /\ cli.pc = "prompt"
  /\ cli.asked < MaxQuestions
  /\ cli' = [pc |-> "prompt", asked |-> cli.asked + 1, prompts |-> cli.prompts + 1,
             last |-> "test"]
  /\ UNCHANGED <<otherThanCli, searchVars>>

\* 'debug' is entered: handleDebugCommand asks "Debug> ".
CliDebug ==
  /\ cli.pc = "prompt"
  /\ cli.asked < MaxQuestions
  /\ cli' = [pc |-> "debug", asked |-> cli.asked + 1, prompts |-> cli.prompts,
             last |-> "debug"]
  /\ UNCHANGED <<otherThanCli, searchVars>>

\* 'back' is entered at "Debug> ": promptUser().
CliDebugBack ==
  /\ cli.pc = "debug"
  /\ cli' = [cli EXCEPT !.pc = "prompt", !.prompts = @ + 1]
  /\ UNCHANGED <<otherThanCli, searchVars>>

\* Another line is entered at "Debug> ": the command runs, then
\* arguments.callee is read in a module (strict code) and throws.
CliDebugCommand ==
  /\ cli.pc = "debug"
  /\ \E end \in Unhandled : cli' = [cli EXCEPT !.pc = end]
  /\ UNCHANGED <<otherThanCli, searchVars>>

\* A question is entered: processQuery awaits performHybridSearch.
AskQuestion ==
  /\ cli.pc = "prompt"
  /\ cli.asked < MaxQuestions
  /\ rpc = "idle"
  /\ cli' = [pc |-> "searching", asked |-> cli.asked + 1, prompts |-> cli.prompts,
             last |-> "question"]
  /\ UNCHANGED <<otherThanCli, searchVars>>

\* performHybridSearch rejects (its fallback query failed): nothing in
\* processQuery or in the callback catches it.
CliSearchFails ==
  /\ cli.pc = "searching"
  /\ rpc = "idle"
  /\ \E end \in Unhandled : cli' = [cli EXCEPT !.pc = end]
  /\ UNCHANGED <<otherThanCli, searchVars>>

\* processQuery ends: promptUser() after "no relevant information", after
\* "low relevance scores" and after the answer; llm.invoke rejected leaves
\* the promise rejected.
CliSettle ==
  /\ cli.pc = "searching"
  /\ rpc \in {"cliempty", "clifiltered"}
  /\ IF outcome = "Error"
     THEN \E end \in Unhandled : cli' = [cli EXCEPT !.pc = end]
     ELSE cli' = [cli EXCEPT !.pc = "prompt", !.prompts = @ + 1]
  /\ rerankIdle
  /\ UNCHANGED <<otherThanCli, indexVars, hybridVars, advVars, expandVars>>

NextCli ==
  \/ StartCLI
  \/ CliExit
  \/ CliTest
  \/ CliDebug
  \/ CliDebugBack
  \/ CliDebugCommand
  \/ AskQuestion
  \/ CliSearchFails
  \/ cli.pc = "searching" /\ CliNoResults
  \/ cli.pc = "searching" /\ CliFilter
  \/ CliSettle

InitCliCall ==
  InitRerankIndex /\ InitHybrid /\ InitAdvanced /\ InitRerank /\ InitExpand
    /\ InitServer

SpecCli == InitCliCall /\ [][NextCli]_vars

\* ------------------------------------------------------------------ claims
SortedByScore(rs) ==
  \A i, j \in 1..Len(rs) : i < j => rs[i].score >= rs[j].score

\* C1: whenever performHybridSearch returns, on the normal path and on the
\* fallback path, it returns at most k candidates in non-increasing order of
\* score.
C1_AtMostKSorted ==
  pc = "done" => Len(ret) <= k /\ SortedByScore(ret)

\* A normal-path return where the merge held more than k candidates, out of
\* score order, and the slice cut them to k = 2.
C1_Witness ==
  /\ pc = "done"
  /\ failed = "none"
  /\ k = 2
  /\ Len(unique) > k
  /\ ~SortedByScore(unique)
  /\ Len(ret) = k
  /\ ret[1].score > ret[2].score

OnePerKey(rs) ==
  \A i, j \in 1..Len(rs) : i # j => IdentityKey(rs[i]) # IdentityKey(rs[j])

\* out is a merge of in: one candidate of in per identity key, and no
\* candidate of in with that key has a higher score.
MergeOf(in, out) ==
  /\ OnePerKey(out)
  /\ \A j \in 1..Len(out) : \E i \in 1..Len(in) : in[i] = out[j]
  /\ \A i \in 1..Len(in) : \E j \in 1..Len(out) :
       /\ IdentityKey(out[j]) = IdentityKey(in[i])
       /\ out[j].score >= in[i].score

\* C2: after the merge step of performHybridSearch (of the semantic and
\* keyword candidates) and of performAdvancedSearch (of the candidates every
\* sub-search returned), there is one candidate per identity key and its
\* score is the maximum of the scores of the merged candidates with that
\* key; the returned list is taken from the merge.
C2_DedupKeepsMax ==
  /\ (pc = "done" /\ failed = "none") =>
        /\ MergeOf(results, unique)
        /\ OnePerKey(ret)
        /\ \A i \in 1..Len(ret) : \E j \in 1..Len(unique) : unique[j] = ret[i]
  /\ apc = "done" =>
        /\ MergeOf(allResults, aunique)
        /\ OnePerKey(aret)
        /\ \A i \in 1..Len(aret) : \E j \in 1..Len(aunique) : aunique[j] = aret[i]

\* performAdvancedSearch merged two keys, and for one key an expanded
\* candidate with a higher score replaced the original query's candidate.
C2_Witness ==
  /\ apc = "done"
  /\ Len(aunique) = 2
  /\ \E i, j \in 1..Len(allResults) :
       /\ i < j
       /\ allResults[i].type # "expanded"
       /\ allResults[j].type = "expanded"
       /\ IdentityKey(allResults[i]) = IdentityKey(allResults[j])
       /\ allResults[j].score > allResults[i].score
       /\ \E h \in 1..Len(aunique) : aunique[h] = allResults[j]

\* C3 (as claimed): performHybridSearch never raises, whichever calls of the
\* vector index fail.
C3_NeverRaises == pc # "raised"

\* C4: when the semantic or the keyword pass raised and the function
\* returned, the result is the fallback query's chunks, one candidate per
\* chunk in the index's order, each of type 'fallback' with score 0.5, and
\* there are at most k of them; nothing gathered in results is returned.
C4_FallbackExact ==
  (pc = "done" /\ failed # "none") =>
     /\ Len(ret) = Len(fallbackResults)
     /\ Len(ret) <= k
     /\ \A i \in 1..Len(ret) :
          /\ ret[i].doc = fallbackResults[i]
          /\ ret[i].score = FallbackScore
          /\ ret[i].type = "fallback"

\* The keyword scan raised after the semantic pass had gathered candidates
\* with another score; the fallback answered two chunks, not in id order.
C4_Witness ==
  /\ pc = "done"
  /\ failed = "keyword"
  /\ \E i \in 1..Len(results) : results[i].score # FallbackScore
  /\ Len(ret) = 2
  /\ ret[1].doc > ret[2].doc

\* C5 (as claimed): on the normal path every chunk of the collection in which
\* a query token occurs has a keyword candidate with score matches / tokens
\* among the results that enter the merge, and no chunk without a match has
\* one.
C5_ScanCoversCorpus ==
  (pc = "done" /\ failed = "none") =>
     /\ \A d \in corpus :
          KeywordMatches(d, Keywords(query)) > 0 =>
            \E i \in 1..Len(results) :
               /\ results[i].type = "keyword"
               /\ results[i].doc = d
               /\ results[i].score * Len(Keywords(query))
                    = 1000 * KeywordMatches(d, Keywords(query))
     /\ \A i \in 1..Len(results) :
          results[i].type = "keyword" =>
            KeywordMatches(results[i].doc, Keywords(query)) > 0

\* The score a filter is to compare: rerankScore when the candidate has one,
\* otherwise score.
EffectiveScore(r) == IF "rerankScore" \in DOMAIN r THEN r.rerankScore ELSE r.score

KeepAbove(rs, t) == SelectSeq(rs, LAMBDA r : EffectiveScore(r) > t)

SameCandidates(in, out) ==
  /\ Len(out) = Len(in)
  /\ \E f \in [1..Len(in) -> 1..Len(in)] :
       /\ \A i, j \in 1..Len(in) : i # j => f[i] # f[j]
       /\ \A i \in 1..Len(in) :
            /\ "rerankScore" \in DOMAIN out[i]
            /\ out[i].doc = in[f[i]].doc
            /\ out[i].score = in[f[i]].score
            /\ out[i].type = in[f[i]].type
            /\ out[i].relevance = in[f[i]].relevance

SortedByRerankScore(rs) ==
  \A i \in 1..(Len(rs) - 1) : rs[i].rerankScore >= rs[i + 1].rerankScore

\* C7: every call of rerankResults returns the candidates of its input, no
\* candidate added or dropped, each with a rerankScore, by non-increasing
\* rerankScore.
C7_SameCandidatesSorted ==
  rpc \in {"ranked", "raised"} =>
    /\ rpc = "ranked"
    /\ SameCandidates(rinput, reranked)
    /\ SortedByRerankScore(reranked)

\* What rerankResults added to the candidate's score.
Boost(r) == r.rerankScore - r.score

\* What is left of that for the term frequency.
FrequencyPart(r, q) ==
  Boost(r) - ExactPhraseBoost(r.doc, q) - FileNameMatchBoost(r.doc, q)
           - DirectoryMatchBoost(r.doc, q) - RecencyBoostOf(r.doc)

\* C8: the rerankScore is the score plus the boosts that apply (0.20 exact
\* phrase, 0.15 file name, 0.10 directory, min(0.05 * weighted frequency,
\* 0.30), 0.10 recency): score <= rerankScore <= score + 0.85, and the
\* term-frequency part is never above 0.30.
C8_BoostBounds ==
  rpc = "ranked" =>
    \A i \in 1..Len(reranked) :
      /\ reranked[i].score <= reranked[i].rerankScore
      /\ reranked[i].rerankScore <= reranked[i].score + ExactBoost + FileNameBoost
                                      + DirectoryBoost + FrequencyCap + RecencyBoost
      /\ FrequencyPart(reranked[i], rquery) \in 0..FrequencyCap
      /\ FrequencyPart(reranked[i], rquery) =
           Min((TwiceWordFrequency(reranked[i].doc, SplitWs(ToLower(rquery)))
                  * FrequencyUnit) \div 2, FrequencyCap)

\* A candidate got every boost, and its weighted frequency times 0.05 is
\* above the cap.
C8_Witness ==
  /\ rpc = "ranked"
  /\ \E i \in 1..Len(reranked) :
       /\ Boost(reranked[i]) = ExactBoost + FileNameBoost + DirectoryBoost
                                 + FrequencyCap + RecencyBoost
       /\ TwiceWordFrequency(reranked[i].doc, SplitWs(ToLower(rquery)))
            * FrequencyUnit > 2 * FrequencyCap

\* The words of s between whitespace, without the empty pieces.
WordsOf(s) ==
  { SplitWs(ToLower(s))[i] : i \in 1..Len(SplitWs(ToLower(s))) } \ {<<>>}

\* What is left of the boost for the directory.
DirectoryPart(r, q) ==
  Boost(r) - ExactPhraseBoost(r.doc, q) - FileNameMatchBoost(r.doc, q)
           - FrequencyBoost(r.doc, q) - RecencyBoostOf(r.doc)

\* C9: a candidate gets the 0.10 directory boost if and only if the chunk's
\* directory name and the query share a whitespace-delimited word, compared
\* in lower case; a part of a directory word and an empty word give none.
C9_DirectoryBoostIffSharedWord ==
  rpc = "ranked" =>
    \A i \in 1..Len(reranked) :
      (DirectoryPart(reranked[i], rquery) = DirectoryBoost)
        <=> (WordsOf(Doc(reranked[i].doc).directory) \cap WordsOf(rquery) # {})

\* C10: when the query is the full text of a candidate's chunk, that
\* candidate gets the 0.20 exact-phrase boost and its frequency boost and
\* is first in the returned list, whatever the scores of the others.
C10_ExactTextRanksFirst ==
  (rpc \in {"ranked", "raised"}
     /\ \E i \in 1..Len(rinput) : Doc(rinput[i].doc).pageContent = rquery) =>
    /\ rpc = "ranked"
    /\ reranked # <<>>
    /\ Doc(reranked[1].doc).pageContent = rquery
    /\ Boost(reranked[1]) >= ExactBoost + FrequencyBoost(reranked[1].doc, rquery)


\* C11: for every query and k >= 0 performAdvancedSearch returns at most k
\* candidates by non-increasing score, each one a result of the search of
\* the original query or of an expanded query that succeeded.
C11_AdvancedAtMostKSorted ==
  apc \in {"done", "threw"} =>
    /\ apc = "done"
    /\ Len(aret) <= ak
    /\ SortedByScore(aret)
    /\ \A i \in 1..Len(aret) : SeqIncludes(allResults, aret[i])

\* The sub-searches performAdvancedSearch is to run for query q and k = n:
\* the original query with n, then the 2nd to 4th element of expandQuery(q)
\* with ceil(n / 2).
ExpectedCalls(q, n) ==
  LET e == ExpandQuery(q)
      half == IF n % 2 = 0 THEN n \div 2 ELSE (n + 1) \div 2
  IN << [q |-> q, n |-> n] >>
       \o [i \in 1..(Min(4, Len(e)) - 1) |-> [q |-> e[i + 1], n |-> half]]

\* C12: the hybrid retriever runs first on the original query with k, then
\* in order on the 2nd to 4th element of expandQuery(query) only, with
\* ceil(k / 2); every candidate of an expansion's search carries type
\* 'expanded' and the expanded query that produced it.
C12_SubSearchOrder ==
  apc # "idle" =>
    LET expected == ExpectedCalls(aquery, ak)
    IN /\ Len(calls) \in 1..Len(expected)
       /\ calls = SubSeq(expected, 1, Len(calls))
       /\ apc = "done" => calls = expected
       /\ \A i \in 2..Len(calls) : calls[i].q # aquery
       /\ \A i \in 1..Len(allResults) :
            IF "expandedQuery" \in DOMAIN allResults[i]
            THEN /\ allResults[i].type = "expanded"
                 /\ \E j \in 2..Len(calls) : calls[j].q = allResults[i].expandedQuery
            ELSE allResults[i].type # "expanded"

\* Three expansions were searched after the original query, and a candidate
\* of the last one is among the results.
C12_Witness ==
  /\ apc = "done"
  /\ Len(calls) = 4
  /\ ak = 2
  /\ \E i \in 1..Len(allResults) :
       /\ allResults[i].type = "expanded"
       /\ allResults[i].expandedQuery = calls[4].q

\* C13: when the search of an expanded query raises, performAdvancedSearch
\* does not raise: the expansion is skipped, the next ones are still
\* searched, and the result is the merge of what the other searches
\* returned.
C13_ExpansionFailureSkipped ==
  /\ [](skipped # <<>> => apc \in {"expanding", "done"})
  /\ [](apc = "done" =>
          /\ Len(calls) = 1 + Len(expandedQueries)
          /\ aret = Slice(SortByScore(Deduplicate(allResults)), ak)
          /\ \A i \in 1..Len(allResults) :
               "expandedQuery" \in DOMAIN allResults[i] =>
                 ~SeqIncludes(skipped, allResults[i].expandedQuery))
  /\ [][Len(skipped') > Len(skipped) =>
          /\ allResults' = allResults
          /\ apc' = (IF expIdx < Len(expandedQueries) THEN "expanding" ELSE "done")]_vars

\* The first expansion's search raised, a later one returned a candidate
\* that is in the result.
C13_Witness ==
  /\ apc = "done"
  /\ Len(skipped) = 1
  /\ skipped[1] = expandedQueries[1]
  /\ \E i \in 1..Len(aret) :
       /\ aret[i].type = "expanded"
       /\ aret[i].expandedQuery = expandedQueries[2]

\* C14: for every query expandQuery returns a list whose first element is
\* the query as given and in which no string occurs twice.
C14_OriginalFirstNoDuplicates ==
  epc \in {"returned", "threw"} =>
    /\ epc = "returned"
    /\ Len(expanded) >= 1
    /\ expanded[1] = equery
    /\ \A i, j \in 1..Len(expanded) : i # j => expanded[i] # expanded[j]

\* The words of q where they stand: <<first, last>> of every maximal run
\* without whitespace.
WordSpans(q) ==
  { sp \in (1..Len(q)) \X (1..Len(q)) :
      /\ sp[1] <= sp[2]
      /\ \A h \in sp[1]..sp[2] : ~IsSpace(q[h])
      /\ (sp[1] = 1 \/ IsSpace(q[sp[1] - 1]))
      /\ (sp[2] = Len(q) \/ IsSpace(q[sp[2] + 1])) }

\* q with the word at sp replaced by synonym, the rest as it was.
ReplaceWordAt(q, sp, synonym) ==
  SubSeq(q, 1, sp[1] - 1) \o synonym \o SubSeq(q, sp[2] + 1, Len(q))

\* v is q with one word that is a key of the table replaced, where it
\* stands, by one of the key's synonyms.
IsWordVariant(q, v) ==
  \E sp \in WordSpans(q) :
    LET synonyms == SynonymMap(ToLower(SubSeq(q, sp[1], sp[2])))
    IN \E h \in 1..Len(synonyms) : v = ReplaceWordAt(q, sp, synonyms[h])

\* C15: every element after the first that expandQuery returns is the query
\* with exactly one whitespace-delimited word that is a key of the synonym
\* table replaced, as a whole word where it stands, by one of the key's
\* synonyms, the other words as they were; "find my work notes" has
\* "find my job notes" and "find my career notes" among its first three
\* expansions.
C15_WholeWordVariants ==
  epc = "returned" =>
    /\ \A i \in 2..Len(expanded) : IsWordVariant(equery, expanded[i])
    /\ equery = <<"f","i","n","d"," ","m","y"," ","w","o","r","k"," ","n","o","t","e","s">> =>
         /\ Len(expanded) >= 3
         /\ expanded[2] = <<"f","i","n","d"," ","m","y"," ","j","o","b"," ","n","o","t","e","s">>
         /\ expanded[3] =
              <<"f","i","n","d"," ","m","y"," ","c","a","r","e","e","r"," ","n","o","t","e","s">>

\* The request has its outcome.
Ended == rpc \in {"raised", "answered", "filtered", "cliempty", "clifiltered"}

\* Of what retrieval returned no candidate has an effective score above
\* the threshold of its path: the rerankScore where rerankResults assigned
\* one, otherwise the score.
NoneAboveThreshold ==
  IF rpc = "clifiltered"
  THEN \A i \in 1..Len(rinput) : rinput[i].score <= CliThreshold
  ELSE IF rpc = "filtered"
  THEN \A i \in 1..Len(reranked) : EffectiveScore(reranked[i]) <= WebThreshold
  ELSE \A i \in 1..Len(rinput) : EffectiveScore(rinput[i]) <= WebThreshold

\* C16: a query ends in NoResults exactly when retrieval returned no
\* candidate, and in BelowThreshold exactly when retrieval returned a
\* candidate and none has an effective score strictly above the threshold
\* (all at the threshold is BelowThreshold); in the CLI and in POST
\* /api/query.
C16_NoResultsAndBelowThreshold ==
  Ended =>
    /\ outcome = "NoResults" <=> rinput = <<>>
    /\ outcome = "BelowThreshold" <=> (rinput # <<>> /\ NoneAboveThreshold)

\* C17: the candidates handed to the context assembler, by POST /api/query
\* and by the CLI, are those with effective score above the configured
\* threshold config.relevanceThreshold, whatever it is set to.
C17_ConfiguredThreshold ==
  /\ rpc = "filtered" => relevant = KeepAbove(reranked, relevanceThreshold)
  /\ rpc = "clifiltered" => relevant = KeepAbove(rinput, relevanceThreshold)

\* The band the thresholds give: high above 0.7, medium above 0.5, else low.
BandOf(score) ==
  IF score > HighBand THEN "high"
  ELSE IF score > MediumBand THEN "medium"
  ELSE "low"

\* C18: every candidate performHybridSearch returns, semantic, keyword or
\* fallback, has relevance 'high' when score > 0.7, 'medium' when
\* 0.5 < score <= 0.7, 'low' otherwise.
C18_BandFromScore ==
  pc = "done" => \A i \in 1..Len(ret) : ret[i].relevance = BandOf(ret[i].score)

\* C19: buildEnhancedContext and buildContextFromResults emit one block per
\* input candidate, in input order, numbered Source 1 to Source n: block i
\* holds the text (and type and band) of the i-th input candidate.
C19_OneBlockPerCandidateInOrder ==
  (rpc \in {"filtered", "clifiltered"}) =>
    /\ Len(context) = Len(relevant)
    /\ \A i \in 1..Len(context) :
         /\ context[i].label = i
         /\ context[i].text = Doc(relevant[i].doc).pageContent
         /\ context[i].type = relevant[i].type
         /\ context[i].relevance = relevant[i].relevance

\* buildEnhancedContext rendered two candidates with different texts.
C19_Witness ==
  /\ rpc = "filtered"
  /\ Len(context) = 2
  /\ context[1].text # context[2].text
  /\ context[1].text = Doc(relevant[1].doc).pageContent

\* C20: for a candidate with a rerankScore and an original score, the block
\* of buildEnhancedContext shows the rerankScore as its score and shows the
\* original score too, whatever the two values, 0 included.
C20_BothScoresShown ==
  rpc = "filtered" =>
    \A i \in 1..Len(context) :
      /\ context[i].score = <<relevant[i].rerankScore>>
      /\ context[i].originalScore = <<relevant[i].originalScore>>

\* C25: splitDocumentsIntoChunks splits with the configured chunkSize and
\* chunkOverlap: no chunk is longer than config.chunkSize (the texts here
\* split at every character), and every chunk has its document's metadata.
C25_ConfiguredChunkSize ==
  splitCall.pc = "returned" =>
    /\ \A i \in 1..Len(splitCall.chunks) :
         /\ splitCall.chunks[i].length <= splitCall.config.chunkSize
         /\ splitCall.chunks[i].metadata = splitCall.doc.metadata
    /\ splitCall.chunks = SplitWithConfig(splitCall.doc, splitCall.config)


\* C21: a query that reads the index while a refresh is in flight reads the
\* complete old index (the one the refresh found) or the complete new index,
\* never a deleted, empty or partly filled one.
C21_QueryDuringRefreshSeesWholeIndex ==
  (queryReq.pc = "done" /\ queryReq.searched /\ queryReq.inRefresh)
    => queryReq.seen \in {queryReq.old, CompleteIndex}

\* C22: a step of a query request (POST /api/query or debug search), whether
\* it answers, finds nothing or fails, leaves the collection, the server's
\* vectorStore handle and the configuration as they were.
C22_QueryWritesNothing ==
  [][queryReq' # queryReq => UNCHANGED <<collection, vectorStore, config>>]_vars

C22_Witness ==
  /\ queryReq.pc = "done"
  /\ queryReq.searched
  /\ queryReq.message = "generation failed"
  /\ queryReq.inRefresh


\* Every candidate of list a is in list b.
KeptIn(a, b) == \A i \in 1..Len(a) : \E j \in 1..Len(b) : b[j] = a[i]

\* C23: on the candidates processQuery filtered, filterResultsByRelevance at
\* a lower threshold keeps every candidate it keeps at a higher threshold.
C23_LowerThresholdKeepsMore ==
  rpc = "clifiltered"
    => \A t1, t2 \in RerankScores :
         t1 < t2 => KeptIn(FilterResultsByRelevance(rinput, t2),
                           FilterResultsByRelevance(rinput, t1))

\* processQuery kept one of two candidates at its threshold; threshold 0
\* keeps both.
C23_Witness ==
  /\ rpc = "clifiltered"
  /\ Len(rinput) = 2
  /\ Len(relevant) = 1
  /\ Len(FilterResultsByRelevance(rinput, 0)) = 2

\* C24: an answered POST /api/query honoured the loaded switches: no
\* expanded sub-search with enableQueryExpansion false, no reranking with
\* enableReranking false, and searchResultsCount results requested.
C24_SwitchesHonoured ==
  (queryReq.pc = "done" /\ queryReq.route = "query" /\ queryReq.message = "answered")
    => /\ ~config.enableQueryExpansion => Len(queryReq.subSearches) = 1
       /\ ~config.enableReranking => ~queryReq.reranked
       /\ queryReq.subSearches[1].n = config.searchResultsCount

\* C26: after a POST /api/init that failed (status 400 or 500), on a server
\* where no other request made a vectorStore, the server is uninitialized:
\* this.vectorStore is null, so a query is rejected and an init runs again.
C26_FailedInitLeavesUninitialized ==
  \A i \in InitRequests :
    (/\ initReq[i].pc = "done"
     /\ initReq[i].status \in {400, 500}
     /\ handles = (IF initReq[i].made # 0 THEN 1 ELSE 0))
      => vectorStore = 0

\* C27: with concurrent POST /api/init on an absent collection, no batch of
\* the corpus is in the collection twice.
C27_CorpusAddedAtMostOnce ==
  \A a, b \in 1..Len(collection.batches) :
    a # b => collection.batches[a] # collection.batches[b]

\* C28: after a POST /api/refresh that failed (status 400 or 500) the
\* collection and the server's vectorStore handle are the ones the request
\* found.
C28_FailedRefreshLeavesIndex ==
  (refreshReq.pc = "done" /\ refreshReq.status \in {400, 500})
    => /\ collection = refreshReq.before.collection
       /\ vectorStore = refreshReq.before.vectorStore


\* C29: when POST /api/settings/vault-path has answered success for a path,
\* loadConfig returns that path as docsPath.
C29_LoadConfigUsesNewPath ==
  (vaultReq.pc = "done" /\ vaultReq.route = "post" /\ vaultReq.status = 200)
    => /\ ~LoadConfigThrows(processEnv)
       /\ LoadedConfig(processEnv).docsPath = vaultReq.vaultPath


\* C30: once a question other than 'exit' is dealt with (the loop is at a
\* prompt again or the process has ended or stalled), it has led to exactly
\* one new prompt: the prompts shown are the first one and one per question.
C30_OnePromptPerQuestion ==
  (cli.pc \in {"prompt", "crashed", "hung"} /\ cli.last = "question")
    => cli.prompts = cli.asked + 1

====
